---------------------------- MODULE Spec2Model ----------------------------
(***************************************************************************)
(* A model of the Twilio <-> OpenAI Realtime voice bridge:                 *)
(*   - ConnectionManager   (app/websocket/connection_manager.py)           *)
(*   - WebSocketHandler    (app/websocket/handlers.py)                     *)
(*   - SessionManager      (app/services/session_manager.py)               *)
(*   - OpenAIClient        (app/services/openai_client.py)                 *)
(*                                                                         *)
(* The program runs as asyncio tasks on one event loop.  A task runs       *)
(* without interruption from one suspension point (an await that reaches   *)
(* the network, a timer or another task) to the next.  Every task has a    *)
(* stack of frames; the label of the top frame is the place the task is    *)
(* suspended at.  cpu names the task that is running between two           *)
(* suspension points (NoTask: the event loop picks any task that can go    *)
(* on), so the steps a task takes without suspending are never interleaved *)
(* with another task's.                                                    *)
(***************************************************************************)
EXTENDS Integers, Sequences, FiniteSets, TLC

\* ------------------------------------------------------------------ bounds
MaxTs == 1            \* media timestamps are drawn from -MaxNeg..MaxTs
MaxNeg == 1
MaxClients == 1       \* OpenAIClient objects one run may create
MaxTransports == 1    \* outbound connections to the speech endpoint one run may open

\* --------------------------------------------------------------- constants
max_attempts == 10     \* SessionManager._try_connect_openai: configure_reconnect(max_attempts=10)
initial_delay == 2     \* SessionManager._try_connect_openai: configure_reconnect(initial_delay=2.0)
max_delay == 60        \* SessionManager._try_connect_openai: configure_reconnect(max_delay=60.0)

\* ----------------------------------------------------------------- domains
None == "None"
CallSockets == {"w1", "w2"}          \* connections to /ws/call
LogSockets == {"f1", "f2"}           \* connections to /ws/logs
Sockets == CallSockets \cup LogSockets
Roles == {"call", "logs"}
RoleOf(s) == IF s \in CallSockets THEN "call" ELSE "logs"

Clients == 1..MaxClients
Transports == 1..MaxTransports
NoClient == 0
NoTransport == 0

StreamIds == {"s1"}
ItemIds == {"a1", "a2"}
Payloads == {"p1"}

\* Optional[int]: <<>> is Python's None, <<n>> the integer n.
NoInt == <<>>
SomeInt(n) == <<n>>

VARIABLES
    sock,                \* [Sockets -> "new" | "pending" | "open" | "sclosed" | "pclosed"]
    avail,               \* the sockets that may still connect in this run
    active_connections,  \* ConnectionManager.active_connections: [Roles -> Seq(Sockets)]
    connection_types,    \* ConnectionManager.connection_types: [Sockets -> Roles \cup {None}]
    twilio_websocket,    \* SessionManager.twilio_websocket
    frontend_websocket,  \* SessionManager.frontend_websocket
    openai_client,       \* SessionManager.openai_client (NoClient: None)
    state,               \* SessionManager.state (SessionState)
    client,              \* [Clients -> the fields of an OpenAIClient]
    transport,           \* [Transports -> an outbound connection to the speech endpoint]
    stk,                 \* [Tasks -> the task's stack of frames]
    tst,                 \* [Tasks -> "new" | "live" | "done" | "cancelled"]
    cpu,                 \* the task running between two suspension points, or NoTask
    out,                 \* [Tasks -> the commands the task's current handler has emitted]
    hist                 \* observations kept for the properties (never read by the program)

vars == <<sock, avail, active_connections, connection_types, twilio_websocket,
          frontend_websocket, openai_client, state, client, transport, stk, tst,
          cpu, out, hist>>

regVars == <<active_connections, connection_types>>
bridgeVars == <<twilio_websocket, frontend_websocket, openai_client, state>>
clientVars == <<client, transport>>

\* ------------------------------------------------------------------- tasks
\* <<"D", s>>: the dispatcher of socket s; <<"L", k>>: the read loop of transport k;
\* <<"R", c>>: the reconnect loop of client c; <<"H", s>>: a caller of the registry;
\* <<"S", "send">>: a caller of the client's send_message.
DTask(s) == <<"D", s>>
LTask(k) == <<"L", k>>
RTask(c) == <<"R", c>>
HTask(s) == <<"H", s>>
Sender == <<"S", "send">>
NoTask == <<"none", "none">>
Tasks == {DTask(s) : s \in Sockets} \cup {LTask(k) : k \in Transports}
         \cup {RTask(c) : c \in Clients} \cup {HTask(s) : s \in Sockets}
         \cup {Sender}

NoMsg == [type |-> None, id |-> None, ts |-> [k |-> "missing", n |-> 0], payload |-> "",
          item |-> None]

\* A frame: the label the task goes on from, and the locals that live across a
\* suspension: s a socket, r a role, c a client, k a transport, i a list index
\* or an attempt number, q a list of sockets, ok a returned flag, m a message,
\* delay the seconds a reconnect loop sleeps.
Frame(l) == [l |-> l, s |-> None, r |-> None, c |-> NoClient, k |-> NoTransport,
             i |-> 0, q |-> <<>>, ok |-> FALSE, m |-> NoMsg, delay |-> 0]

Top(t) == stk[t][Len(stk[t])]
At(t, l) == tst[t] = "live" /\ stk[t] # <<>> /\ Top(t).l = l
\* the task is suspended at l and the event loop resumes it
Resume(t, l) == cpu = NoTask /\ At(t, l)
\* the task is running and has reached l without suspending
Cont(t, l) == cpu = t /\ At(t, l)
\* the task goes on from l, which it reached with or without suspending
Arrive(t, l) == cpu \in {t, NoTask} /\ At(t, l)

SetTop(st, f) == [st EXCEPT ![Len(st)] = f]
Pop(st) == SubSeq(st, 1, Len(st) - 1)
Push(st, f) == Append(st, f)

\* The task suspends with its stack st.  S and T are stk and tst with the
\* other tasks the step has started or cancelled.
YieldB(t, st, S, T) == /\ stk' = [S EXCEPT ![t] = st]
                       /\ cpu' = NoTask
                       /\ tst' = T
\* The task goes on without suspending (a call or a return), with its stack st;
\* it ends when its outermost frame has returned.
GoB(t, st, S, T) == /\ stk' = [S EXCEPT ![t] = st]
                    /\ cpu' = IF st = <<>> THEN NoTask ELSE t
                    /\ tst' = IF st = <<>> THEN [T EXCEPT ![t] = "done"] ELSE T
Yield(t, st) == YieldB(t, st, stk, tst)
Go(t, st) == GoB(t, st, stk, tst)
\* Return from the top frame to the caller.
Return(t) == Go(t, Pop(stk[t]))
\* Return a flag to the caller.
WithOk(st, ok) == IF st = <<>> THEN st ELSE SetTop(st, [st[Len(st)] EXCEPT !.ok = ok])

InSeq(x, sq) == \E j \in 1..Len(sq) : sq[j] = x
FirstIndex(x, sq) == CHOOSE j \in 1..Len(sq) : sq[j] = x /\ \A h \in 1..(j - 1) : sq[h] # x
\* list.remove(x): removes the first occurrence
RemoveFirst(sq, x) ==
    IF InSeq(x, sq)
    THEN LET j == FirstIndex(x, sq) IN SubSeq(sq, 1, j - 1) \o SubSeq(sq, j + 1, Len(sq))
    ELSE sq

\* ----------------------------------------------------------------- sockets
\* await websocket.close(): a close on a socket that is not open raises, and every
\* caller swallows the error.
CloseSocket(sk, s) == IF sk[s] = "open" THEN [sk EXCEPT ![s] = "sclosed"] ELSE sk
\* await websocket.send_text(...) succeeds on an open socket and raises otherwise
SendOk(sk, s) == sk[s] = "open"


\* A variant of RegisterNew that never clears the role's list.
RegisterNewKeepsOld(ac, ct, s, evicting) ==
    [ac |-> [ac EXCEPT ![RoleOf(s)] = Append(@, s)], ct |-> [ct EXCEPT ![s] = RoleOf(s)]]

\* ------------------------------------------------- ConnectionManager (registry)
\* ConnectionManager.connect, after the eviction loop: clear the role's list when
\* the role held connections on entry (evicting), then register the new socket.
RegisterNew(ac, ct, s, evicting) ==
    LET r == RoleOf(s)
        base == IF evicting THEN [ac EXCEPT ![r] = <<>>] ELSE ac
    IN [ac |-> [base EXCEPT ![r] = Append(@, s)], ct |-> [ct EXCEPT ![s] = r]]

\* A variant of disconnect that forgets the role of the socket and leaves the
\* socket in the list of its role.
DisconnectTypeOnly(ac, ct, s) ==
    LET r == ct[s] IN
    IF r # None /\ InSeq(s, ac[r])
    THEN [ac |-> ac, ct |-> [ct EXCEPT ![s] = None]]
    ELSE [ac |-> ac, ct |-> ct]

\* ConnectionManager.disconnect(websocket)
Disconnect(ac, ct, s) ==
    LET r == ct[s] IN
    IF r # None /\ InSeq(s, ac[r])
    THEN [ac |-> [ac EXCEPT ![r] = RemoveFirst(@, s)], ct |-> [ct EXCEPT ![s] = None]]
    ELSE [ac |-> ac, ct |-> ct]

RECURSIVE DisconnectAll(_, _, _)
DisconnectAll(ac, ct, q) ==
    IF q = <<>> THEN [ac |-> ac, ct |-> ct]
    ELSE LET one == Disconnect(ac, ct, Head(q)) IN DisconnectAll(one.ac, one.ct, Tail(q))

\* connect, line 32: await websocket.accept(); the task then suspends.
CM_Connect(t) ==
    /\ Cont(t, "cm_connect")
    /\ LET s == Top(t).s IN
       sock' = IF sock[s] = "pending" THEN [sock EXCEPT ![s] = "open"] ELSE sock
    /\ Yield(t, SetTop(stk[t], [Top(t) EXCEPT !.l = "cm_accepted"]))
    /\ UNCHANGED <<avail, regVars, bridgeVars, clientVars, out, hist>>

\* connect, lines 35-48 up to the first close: if the role holds connections, start
\* closing them (each close suspends); otherwise register the new one.
CM_Accepted(t) ==
    /\ Resume(t, "cm_accepted")
    /\ LET s == Top(t).s
           r == RoleOf(s)
       IN IF active_connections[r] # <<>>
          THEN /\ sock' = CloseSocket(sock, active_connections[r][1])
               /\ Yield(t, SetTop(stk[t], [Top(t) EXCEPT !.l = "cm_evict", !.i = 1]))
               /\ UNCHANGED regVars
          ELSE LET reg == RegisterNew(active_connections, connection_types, s, FALSE) IN
               /\ active_connections' = reg.ac
               /\ connection_types' = reg.ct
               /\ Return(t)
               /\ UNCHANGED sock
    /\ UNCHANGED <<avail, bridgeVars, clientVars, out, hist>>

\* connect, the eviction loop after a close has returned: the for loop reads the
\* live list, so it goes on with the element at the next index, if there is one.
CM_Evict(t) ==
    /\ Resume(t, "cm_evict")
    /\ LET s == Top(t).s
           r == RoleOf(s)
           i == Top(t).i
       IN IF i < Len(active_connections[r])
          THEN /\ sock' = CloseSocket(sock, active_connections[r][i + 1])
               /\ Yield(t, SetTop(stk[t], [Top(t) EXCEPT !.i = i + 1]))
               /\ UNCHANGED regVars
          ELSE LET reg == RegisterNew(active_connections, connection_types, s, TRUE) IN
               /\ active_connections' = reg.ac
               /\ connection_types' = reg.ct
               /\ Return(t)
               /\ UNCHANGED sock
    /\ UNCHANGED <<avail, bridgeVars, clientVars, out, hist>>

\* send_to_connection(websocket, message): a failed send releases the connection.
CM_SendTo(t) ==
    /\ Cont(t, "cm_send_to")
    /\ LET s == Top(t).s IN
       IF SendOk(sock, s)
       THEN /\ Yield(t, SetTop(stk[t], [Top(t) EXCEPT !.l = "cm_ret"]))
            /\ UNCHANGED regVars
       ELSE LET reg == Disconnect(active_connections, connection_types, s) IN
            /\ active_connections' = reg.ac
            /\ connection_types' = reg.ct
            /\ Return(t)
    /\ UNCHANGED <<sock, avail, bridgeVars, clientVars, out, hist>>

\* a registry call that has nothing left to do after its last await
CM_Ret(t) ==
    /\ Resume(t, "cm_ret")
    /\ Return(t)
    /\ UNCHANGED <<sock, avail, regVars, bridgeVars, clientVars, out, hist>>

\* broadcast_to_type: the send loop from index i on, up to the next send that
\* succeeds (and suspends) or the end of the live list; failed sockets are collected.
RECURSIVE BroadcastScan(_, _, _, _)
BroadcastScan(lst, sk, i, q) ==
    IF i >= Len(lst) THEN [i |-> i, q |-> q, sent |-> FALSE]
    ELSE IF SendOk(sk, lst[i + 1]) THEN [i |-> i + 1, q |-> q, sent |-> TRUE]
    ELSE BroadcastScan(lst, sk, i + 1, Append(q, lst[i + 1]))

\* A variant of broadcast_to_type without the clean-up of the failed sockets.
CM_BroadcastKeepsFailed(t) ==
    /\ \/ Cont(t, "cm_broadcast")
       \/ Resume(t, "cm_bc_sent")
    /\ LET r == Top(t).r IN
       IF r \notin Roles
       THEN Return(t)
       ELSE LET sc == BroadcastScan(active_connections[r], sock, Top(t).i, Top(t).q) IN
            IF sc.sent
            THEN Yield(t, SetTop(stk[t], [Top(t) EXCEPT !.l = "cm_bc_sent",
                                                        !.i = sc.i, !.q = sc.q]))
            ELSE Return(t)
    /\ UNCHANGED <<sock, avail, regVars, bridgeVars, clientVars, out, hist>>

CM_Broadcast(t) ==
    /\ \/ Cont(t, "cm_broadcast")
       \/ Resume(t, "cm_bc_sent")
    /\ LET r == Top(t).r IN
       IF r \notin Roles
       THEN Return(t) /\ UNCHANGED regVars
       ELSE LET sc == BroadcastScan(active_connections[r], sock, Top(t).i, Top(t).q) IN
            IF sc.sent
            THEN /\ Yield(t, SetTop(stk[t], [Top(t) EXCEPT !.l = "cm_bc_sent",
                                                            !.i = sc.i, !.q = sc.q]))
                 /\ UNCHANGED regVars
            ELSE LET reg == DisconnectAll(active_connections, connection_types, sc.q) IN
                 /\ active_connections' = reg.ac
                 /\ connection_types' = reg.ct
                 /\ Return(t)
    /\ UNCHANGED <<sock, avail, bridgeVars, clientVars, out, hist>>

\* ------------------------------------------------------------- environment
\* The peer of an accepted connection closes it, or the network drops it.
PeerClose(s) ==
    /\ cpu = NoTask
    /\ sock[s] = "open"
    /\ sock' = [sock EXCEPT ![s] = "pclosed"]
    /\ UNCHANGED <<avail, regVars, bridgeVars, clientVars, stk, tst, cpu, out, hist>>

\* ------------------------------------------ callers of the registry (harness)
\* A task per socket that accepts it and then calls the registry's operations in
\* any order, with any argument.
H_Start(s) ==
    /\ cpu = NoTask
    /\ s \in avail
    /\ sock[s] = "new"
    /\ tst[HTask(s)] = "new"
    /\ sock' = [sock EXCEPT ![s] = "pending"]
    /\ tst' = [tst EXCEPT ![HTask(s)] = "live"]
    /\ stk' = [stk EXCEPT ![HTask(s)] =
                 <<Frame("h_idle"), [Frame("cm_connect") EXCEPT !.s = s]>>]
    /\ cpu' = HTask(s)
    /\ UNCHANGED <<avail, regVars, bridgeVars, clientVars, out, hist>>

H_Release(t) ==
    /\ \/ Resume(t, "h_idle")
       \/ Cont(t, "h_idle")
    /\ \E x \in Sockets :
         LET reg == Disconnect(active_connections, connection_types, x) IN
         /\ active_connections' = reg.ac
         /\ connection_types' = reg.ct
    /\ cpu' = NoTask
    /\ UNCHANGED <<sock, avail, bridgeVars, clientVars, stk, tst, out, hist>>

H_SendTo(t) ==
    /\ \/ Resume(t, "h_idle")
       \/ Cont(t, "h_idle")
    /\ \E x \in Sockets :
         Go(t, Push(stk[t], [Frame("cm_send_to") EXCEPT !.s = x]))
    /\ UNCHANGED <<sock, avail, regVars, bridgeVars, clientVars, out, hist>>

H_Broadcast(t) ==
    /\ \/ Resume(t, "h_idle")
       \/ Cont(t, "h_idle")
    /\ \E r \in Roles \cup {"other"} :
         Go(t, Push(stk[t], [Frame("cm_broadcast") EXCEPT !.r = r]))
    /\ UNCHANGED <<sock, avail, regVars, bridgeVars, clientVars, out, hist>>

SessionState == [stream_sid |-> None, latest_media_timestamp |-> NoInt,
                 response_start_timestamp |-> NoInt, last_assistant_item |-> None,
                 saved_config |-> None]

NewClient == [created |-> FALSE, websocket |-> NoTransport, is_connected |-> FALSE,
              auto_reconnect |-> TRUE, current_reconnect_attempts |-> 0,
              session_config |-> None]

NewTransport == [st |-> "free", owner |-> NoClient, su |-> FALSE]

\* ---------------------------------------------------------------- messages
\* What a media frame may carry as media.timestamp: nothing, null, an integer, a
\* string of decimal digits, a float with a fraction, a string that is no number,
\* NaN, or an infinite float (json.loads reads Infinity and 1e999 as inf).
TsRaw == {[k |-> kk, n |-> 0] : kk \in {"missing", "null", "text", "nan", "inf"}}
         \cup {[k |-> kk, n |-> n] : kk \in {"int", "str", "float"}, n \in (0 - MaxNeg)..MaxTs}

\* SessionManager._safe_int(value, default=0): int(value), the default for None and
\* for a ValueError or TypeError; any other error of int() is raised to the caller
\* (int(float("inf")) raises OverflowError).  media_data.get("timestamp", 0) gives
\* the integer 0 for a missing key.
SafeInt(v) ==
    CASE v.k = "missing" -> [raises |-> FALSE, v |-> 0]
      [] v.k = "null"    -> [raises |-> FALSE, v |-> 0]
      [] v.k = "int"     -> [raises |-> FALSE, v |-> v.n]
      [] v.k = "str"     -> [raises |-> FALSE, v |-> v.n]
      [] v.k = "float"   -> [raises |-> FALSE, v |-> v.n]
      [] v.k = "text"    -> [raises |-> FALSE, v |-> 0]
      [] v.k = "nan"     -> [raises |-> FALSE, v |-> 0]
      [] v.k = "inf"     -> [raises |-> TRUE, v |-> 0]

\* _safe_int of a field of SessionState (an Optional[int])
SafeIntOpt(x) == IF x = NoInt THEN 0 ELSE x[1]

Max(a, b) == IF a >= b THEN a ELSE b


\* A variant of AudioEndMs without the floor at 0.
AudioEndMsNoFloor(latest, response_start) == SafeIntOpt(latest) - SafeIntOpt(response_start)

\* _handle_truncation, lines 204-207
AudioEndMs(latest, response_start) == Max(SafeIntOpt(latest) - SafeIntOpt(response_start), 0)

\* A command the bridge emits: to the speech endpoint (transport k of a client), to
\* the telephony leg or to the observer leg (socket ws); ok: it was written.
Cmd(to, type, id, n) == [to |-> to, type |-> type, id |-> id, n |-> n, p |-> "",
                         ws |-> None, k |-> NoTransport, c |-> NoClient, ok |-> FALSE]
Log(t, cmd) == [out EXCEPT ![t] = Append(@, cmd)]

\* SessionManager._send_to_twilio / _send_to_frontend: nothing without a handle;
\* otherwise one send_text, whose error is swallowed.  st: the task's stack, with
\* the place it goes on from on top.
SendSocket(t, ws, cmd, st) ==
    IF ws = None
    THEN Go(t, st) /\ out' = out
    ELSE /\ out' = Log(t, [cmd EXCEPT !.ws = ws, !.ok = SendOk(sock, ws)])
         /\ Yield(t, st)

\* OpenAIClient._start_reconnect: a no-op while a reconnect task is not done,
\* otherwise a new task running _reconnect_loop.  (StartReconnectStkAlways is a
\* variant without the test: it puts a new loop in the place of the running one.)
StartReconnectStkAlways(c, S, T) ==
    [S EXCEPT ![RTask(c)] = <<[Frame("rl_top") EXCEPT !.c = c]>>]
StartReconnectStk(c, S, T) ==
    IF T[RTask(c)] = "live" THEN S
    ELSE [S EXCEPT ![RTask(c)] = <<[Frame("rl_top") EXCEPT !.c = c]>>]
StartReconnectTst(c, T) == [T EXCEPT ![RTask(c)] = "live"]

\* A message that json.dumps cannot serialise (none of the bridge's own messages).
Unserializable == "unserializable"

\* A variant of send_message that treats a closed transport as it treats any
\* other error of the send.
SendMessageNoPath(t, c, cmd, st) ==
    LET k == client[c].websocket
        entry == [cmd EXCEPT !.c = c, !.k = k]
    IN IF ~client[c].is_connected \/ k = NoTransport
          \/ cmd.type = Unserializable \/ transport[k].st # "open"
       THEN /\ out' = Log(t, entry)
            /\ Go(t, st)
            /\ UNCHANGED clientVars
       ELSE /\ out' = Log(t, [entry EXCEPT !.ok = TRUE])
            /\ transport' = [transport EXCEPT
                               ![k].su = @ \/ cmd.type = "session.update"]
            /\ Yield(t, st)
            /\ UNCHANGED client

\* OpenAIClient.send_message(message) on client c.
SendMessage(t, c, cmd, st) ==
    LET k == client[c].websocket
        entry == [cmd EXCEPT !.c = c, !.k = k]
    IN IF ~client[c].is_connected \/ k = NoTransport
       THEN \* lines 115-117: not connected
            /\ out' = Log(t, entry)
            /\ Go(t, st)
            /\ UNCHANGED clientVars
       ELSE IF cmd.type = Unserializable
       THEN \* lines 126-128: json.dumps raises TypeError
            /\ out' = Log(t, entry)
            /\ Go(t, st)
            /\ UNCHANGED clientVars
       ELSE IF transport[k].st = "open"
       THEN \* lines 120-121: written; the send may suspend
            /\ out' = Log(t, [entry EXCEPT !.ok = TRUE])
            /\ transport' = [transport EXCEPT
                               ![k].su = @ \/ cmd.type = "session.update"]
            /\ Yield(t, st)
            /\ UNCHANGED client
       ELSE \* lines 122-125: ConnectionClosed, the disconnection path
            /\ out' = Log(t, entry)
            /\ Go(t, Push(st, [Frame("hd") EXCEPT !.c = c]))
            /\ UNCHANGED clientVars

\* ------------------------------------------------------------ OpenAIClient
FreshTransport == CHOOSE k \in Transports :
                     transport[k].st = "free" /\ \A j \in 1..(k - 1) : transport[j].st # "free"

\* _handle_disconnection, lines 185-194: flag off and on_disconnected
\* (SessionManager._on_openai_disconnected: a status message to the observer leg).
HD(t) ==
    /\ Cont(t, "hd")
    /\ LET c == Top(t).c IN
       IF client[c].is_connected
       THEN /\ client' = [client EXCEPT ![c].is_connected = FALSE]
            /\ IF frontend_websocket # None
               THEN /\ out' = Log(t, [Cmd("frontend", "openai_disconnected", None, 0)
                                        EXCEPT !.ws = frontend_websocket,
                                               !.ok = SendOk(sock, frontend_websocket)])
                    /\ Yield(t, SetTop(stk[t], [Top(t) EXCEPT !.l = "hd_cb"]))
               ELSE /\ out' = out
                    /\ IF client[c].auto_reconnect
                       THEN GoB(t, Pop(stk[t]), StartReconnectStk(c, stk, tst),
                                StartReconnectTst(c, tst))
                       ELSE Return(t)
       ELSE /\ Return(t)
            /\ UNCHANGED <<client, out>>
    /\ UNCHANGED <<sock, avail, regVars, bridgeVars, transport, hist>>

\* _handle_disconnection, lines 196-198, after on_disconnected has returned
HD_Cb(t) ==
    /\ Resume(t, "hd_cb")
    /\ LET c == Top(t).c IN
       IF client[c].auto_reconnect
       THEN GoB(t, Pop(stk[t]), StartReconnectStk(c, stk, tst), StartReconnectTst(c, tst))
       ELSE Return(t)
    /\ UNCHANGED <<sock, avail, regVars, bridgeVars, clientVars, out, hist>>


\* A variant of CO_DialOk that leaves the counter of attempts as it is.
CO_DialOkKeepsCounter(t) ==
    /\ Resume(t, "co_dial")
    /\ \E k \in Transports : transport[k].st = "free"
    /\ LET c == Top(t).c
           k == CHOOSE j \in Transports : transport[j].st = "free"
       IN /\ transport' = [transport EXCEPT ![k] = [st |-> "open", owner |-> c, su |-> FALSE]]
          /\ client' = [client EXCEPT ![c].websocket = k, ![c].is_connected = TRUE]
          /\ hist' = [hist EXCEPT !.fails[c] = 0]
          /\ YieldB(t, SetTop(stk[t], [Top(t) EXCEPT !.l = "co_wait", !.k = k]),
                    [stk EXCEPT ![LTask(k)] = <<[Frame("li_recv") EXCEPT !.c = c, !.k = k]>>],
                    [tst EXCEPT ![LTask(k)] = "live"])
    /\ UNCHANGED <<sock, avail, regVars, bridgeVars, out>>

\* connect, lines 49-61: websockets.connect has succeeded; flag on, counter reset,
\* the read loop created as a task, and the connect call awaits that task.
CO_DialOk(t) ==
    /\ Resume(t, "co_dial")
    /\ \E k \in Transports : transport[k].st = "free"
    /\ LET c == Top(t).c
           k == FreshTransport
       IN /\ transport' = [transport EXCEPT ![k] = [st |-> "open", owner |-> c, su |-> FALSE]]
          /\ client' = [client EXCEPT ![c].websocket = k, ![c].is_connected = TRUE,
                                      ![c].current_reconnect_attempts = 0]
          /\ hist' = [hist EXCEPT !.fails[c] = 0]
          /\ YieldB(t, SetTop(stk[t], [Top(t) EXCEPT !.l = "co_wait", !.k = k]),
                    [stk EXCEPT ![LTask(k)] = <<[Frame("li_recv") EXCEPT !.c = c, !.k = k]>>],
                    [tst EXCEPT ![LTask(k)] = "live"])
    /\ UNCHANGED <<sock, avail, regVars, bridgeVars, out>>

\* connect, lines 75-79: websockets.connect has failed.
CO_DialFail(t) ==
    /\ Resume(t, "co_dial")
    /\ LET c == Top(t).c IN
       /\ client' = [client EXCEPT ![c].is_connected = FALSE]
       /\ hist' = IF t = RTask(c) THEN [hist EXCEPT !.fails[c] = @ + 1] ELSE hist
       /\ IF client[c].auto_reconnect
          THEN GoB(t, WithOk(Pop(stk[t]), FALSE), StartReconnectStk(c, stk, tst),
                   StartReconnectTst(c, tst))
          ELSE Go(t, WithOk(Pop(stk[t]), FALSE))
    /\ UNCHANGED <<sock, avail, regVars, bridgeVars, transport, out>>

\* OpenAISessionConfig().model_dump(), schemas.py lines 52-59
DefaultConfig ==
    [modalities |-> "text,audio", turn_detection |-> "server_vad", voice |-> "ash",
     input_audio_transcription |-> "whisper-1", input_audio_format |-> "g711_ulaw",
     output_audio_format |-> "g711_ulaw"]

\* The dictionary a session payload stands for; every value has the type the
\* schema gives its key.
ConfigDict(config) ==
    CASE config = "cfg1" -> [voice |-> "alloy"]
      [] config = "cfg2" -> [voice |-> "verse", instructions |-> "be brief"]
      [] OTHER -> [x \in {} |-> ""]

\* session_data.update(config), line 258
DictUpdate(d, e) ==
    [x \in DOMAIN d \cup DOMAIN e |-> IF x \in DOMAIN e THEN e[x] ELSE d[x]]

\* OpenAISessionConfig(**session_data).model_dump(): a pydantic model keeps the
\* fields it declares and ignores every other key.
ModelDump(d) == [x \in DOMAIN DefaultConfig |-> d[x]]

\* _send_session_update, lines 253-260: the client's session_config (or {}) laid
\* over the defaults of OpenAISessionConfig, and passed through the schema.
SessionData(config) == ModelDump(DictUpdate(DefaultConfig, ConfigDict(config)))

\* connect, lines 61-64: the awaited read loop has ended; _send_session_update.
CO_Wait(t) ==
    /\ Resume(t, "co_wait")
    /\ tst[LTask(Top(t).k)] \in {"done", "cancelled"}
    /\ SendMessage(t, Top(t).c,
                   [Cmd("openai", "session.update", None, 0)
                      EXCEPT !.p = SessionData(client[Top(t).c].session_config)],
                   SetTop(stk[t], [Top(t) EXCEPT !.l = "co_sent"]))
    /\ UNCHANGED <<sock, avail, regVars, bridgeVars, hist>>

\* connect, lines 67-71: on_connected (SessionManager._on_openai_connected: a
\* status message to the observer leg).
CO_Sent(t) ==
    /\ Arrive(t, "co_sent")
    /\ SendSocket(t, frontend_websocket, Cmd("frontend", "openai_connected", None, 0),
                  SetTop(stk[t], [Top(t) EXCEPT !.l = "co_cb"]))
    /\ UNCHANGED <<sock, avail, regVars, bridgeVars, clientVars, hist>>

\* connect, line 73: return True
CO_Cb(t) ==
    /\ Arrive(t, "co_cb")
    /\ Go(t, WithOk(Pop(stk[t]), TRUE))
    /\ UNCHANGED <<sock, avail, regVars, bridgeVars, clientVars, out, hist>>


\* A variant of LoopGoesOn that allows one attempt more.
LoopGoesOnOnceMore(c) ==
    /\ client[c].auto_reconnect
    /\ client[c].current_reconnect_attempts <= max_attempts
    /\ ~client[c].is_connected

\* _reconnect_loop, lines 214-231: the loop test, the counter, and the sleep.
LoopGoesOn(c) ==
    /\ client[c].auto_reconnect
    /\ client[c].current_reconnect_attempts < max_attempts
    /\ ~client[c].is_connected

Min(a, b) == IF a <= b THEN a ELSE b

\* A variant of Delay without the cap.
DelayUncapped(attempts) == initial_delay * 2^(attempts - 1)

\* _reconnect_loop, lines 221-224: the delay before attempt number attempts
Delay(attempts) == Min(initial_delay * 2^(attempts - 1), max_delay)

RL_Top(t) ==
    /\ Arrive(t, "rl_top")
    /\ LET c == Top(t).c
           attempts == client[c].current_reconnect_attempts + 1
       IN
       IF LoopGoesOn(c)
       THEN /\ client' = [client EXCEPT ![c].current_reconnect_attempts = attempts]
            /\ Yield(t, SetTop(stk[t], [Top(t) EXCEPT !.l = "rl_sleep", !.i = attempts,
                                                       !.delay = Delay(attempts)]))
       ELSE /\ Go(t, <<>>)
            /\ UNCHANGED client
    /\ UNCHANGED <<sock, avail, regVars, bridgeVars, transport, out, hist>>

\* A variant of RL_Sleep that calls connect() without reading the flag again.
RL_SleepNoRecheck(t) ==
    /\ Resume(t, "rl_sleep")
    /\ LET c == Top(t).c IN
       Yield(t, Push(SetTop(stk[t], [Top(t) EXCEPT !.l = "rl_connected", !.i = 0,
                                                   !.delay = 0]),
                     [Frame("co_dial") EXCEPT !.c = c]))
    /\ UNCHANGED <<sock, avail, regVars, bridgeVars, clientVars, out, hist>>

\* _reconnect_loop, lines 233-236: the sleep is over; connect() unless reconnection
\* has been disabled meanwhile.  The delay and the attempt number are not read
\* again before the loop computes the next ones.
RL_Sleep(t) ==
    /\ Resume(t, "rl_sleep")
    /\ LET c == Top(t).c IN
       IF ~client[c].auto_reconnect
       THEN Go(t, <<>>)
       ELSE Yield(t, Push(SetTop(stk[t], [Top(t) EXCEPT !.l = "rl_connected", !.i = 0,
                                                        !.delay = 0]),
                          [Frame("co_dial") EXCEPT !.c = c]))
    /\ UNCHANGED <<sock, avail, regVars, bridgeVars, clientVars, out, hist>>

\* _reconnect_loop, lines 237-239: connect() has returned.
RL_Connected(t) ==
    /\ Cont(t, "rl_connected")
    /\ IF Top(t).ok
       THEN Go(t, <<>>)
       ELSE Go(t, SetTop(stk[t], [Top(t) EXCEPT !.l = "rl_top"]))
    /\ UNCHANGED <<sock, avail, regVars, bridgeVars, clientVars, out, hist>>

\* The speech endpoint, or the network, ends an open connection: cleanly (the
\* read loop's iteration just ends) or with an error (ConnectionClosed).
PeerDrop(k) ==
    /\ cpu = NoTask
    /\ transport[k].st = "open"
    /\ \E how \in {"closed_ok", "closed_err"} :
         transport' = [transport EXCEPT ![k].st = how]
    /\ UNCHANGED <<sock, avail, regVars, bridgeVars, client, stk, tst, cpu, out, hist>>

\* --------------------------------------------- OpenAIClient._listen_messages
SpeechStarted == "input_audio_buffer.speech_started"
AudioDelta == "response.audio.delta"
OutputItemDone == "response.output_item.done"

\* What the item of a response.output_item.done event may be: a function call,
\* for a registered name or another one, whose arguments are the JSON text of an
\* object ("object"), text that is no JSON ("not_json"), the JSON text of a value
\* that is no object ("not_object"), or no string at all ("not_str": null, a
\* number, an object); or an item of another type.
Weather == "get_weather_from_coords"
ArgKinds == {"object", "not_json", "not_object", "not_str"}
FunctionCall(n, a) == [type |-> "function_call", name |-> n, arguments |-> a, call_id |-> "c1"]
FunctionCalls == {FunctionCall(Weather, a) : a \in ArgKinds}
                 \cup {FunctionCall("unregistered", "object")}
OtherItem == [type |-> "message", name |-> None, arguments |-> None, call_id |-> None]

\* A frame of the speech endpoint that is JSON and no object (a list, a number):
\* json.loads takes it, and the handler raises at message.get.
NotObject == "not_object"
\* A frame of the speech endpoint that is no JSON text.
Unparsable == "unparsable"

\* The events the speech endpoint may send.
SpeechEvents ==
    {[NoMsg EXCEPT !.type = ty] : ty \in {SpeechStarted, "other", NotObject}}
    \cup {[NoMsg EXCEPT !.type = AudioDelta, !.id = id, !.payload = p] :
            id \in ItemIds \cup {None}, p \in Payloads \cup {""}}
    \cup {[NoMsg EXCEPT !.type = OutputItemDone, !.item = it] :
            it \in FunctionCalls \cup {OtherItem}}


\* A variant of LI_Event that goes to the handler of the event at once.
LI_EventUnmirrored(t) ==
    /\ Resume(t, "li_recv")
    /\ transport[Top(t).k].st = "open"
    /\ \E ev \in SpeechEvents :
         IF ~client[Top(t).c].is_connected
         THEN Go(t, <<>>)
         ELSE Go(t, SetTop(stk[t], [Top(t) EXCEPT !.l = "li_dispatch", !.m = ev]))
    /\ UNCHANGED <<sock, avail, regVars, bridgeVars, clientVars, out, hist>>

\* lines 163-170, and SessionManager.handle_openai_message, line 62: a frame is read.
\* With the flag off the loop breaks; otherwise the event is first mirrored to the
\* observer leg (the command's p is the event as it was read).
LI_Event(t) ==
    /\ Resume(t, "li_recv")
    /\ transport[Top(t).k].st = "open"
    /\ \E ev \in SpeechEvents :
         IF ~client[Top(t).c].is_connected
         THEN Go(t, <<>>) /\ out' = out
         ELSE SendSocket(t, frontend_websocket,
                         [Cmd("frontend", ev.type, ev.id, 0) EXCEPT !.k = Top(t).k, !.p = ev],
                         SetTop(stk[t], [Top(t) EXCEPT !.l = "li_dispatch", !.m = ev]))
    /\ UNCHANGED <<sock, avail, regVars, bridgeVars, clientVars, hist>>

\* A variant of LI_Skip in which the error of json.loads leaves the loop and
\* runs the disconnection path.
LI_SkipEndsLoop(t) ==
    /\ Resume(t, "li_recv")
    /\ transport[Top(t).k].st = "open"
    /\ IF ~client[Top(t).c].is_connected
       THEN Go(t, <<>>)
       ELSE Go(t, <<[Frame("hd") EXCEPT !.c = Top(t).c]>>)
    /\ UNCHANGED <<sock, avail, regVars, bridgeVars, clientVars, out, hist>>

\* lines 163-172: a frame that json.loads rejects is logged, and the loop goes on
\* (with the flag off the loop breaks before the frame is parsed).
LI_Skip(t) ==
    /\ Resume(t, "li_recv")
    /\ transport[Top(t).k].st = "open"
    /\ IF ~client[Top(t).c].is_connected
       THEN Go(t, <<>>)
       ELSE Go(t, SetTop(stk[t], [Top(t) EXCEPT !.l = "li_loop", !.m.type = Unparsable]))
    /\ UNCHANGED <<sock, avail, regVars, bridgeVars, clientVars, out, hist>>

\* lines 173-174, and handle_openai_message, line 64: message.get raises on a
\* frame that is no object, after the frame has been mirrored; the error is
\* logged, and the loop goes on.
LI_Raises(t) ==
    /\ Arrive(t, "li_dispatch")
    /\ Top(t).m.type = NotObject
    /\ Go(t, SetTop(stk[t], [Top(t) EXCEPT !.l = "li_loop"]))
    /\ UNCHANGED <<sock, avail, regVars, bridgeVars, clientVars, out, hist>>

\* lines 176-181: the connection has ended.  A clean close ends the iteration; an
\* error runs the disconnection path.
LI_Closed(t) ==
    /\ Resume(t, "li_recv")
    /\ transport[Top(t).k].st \in {"closed_ok", "closed_err"}
    /\ IF transport[Top(t).k].st = "closed_ok"
       THEN Go(t, <<>>)
       ELSE Go(t, <<[Frame("hd") EXCEPT !.c = Top(t).c]>>)
    /\ UNCHANGED <<sock, avail, regVars, bridgeVars, clientVars, out, hist>>

\* the handler has returned: back to the read
LI_Loop(t) ==
    /\ Arrive(t, "li_loop")
    /\ out' = [out EXCEPT ![t] = <<>>]
    /\ Yield(t, SetTop(stk[t], [Top(t) EXCEPT !.l = "li_recv", !.m = NoMsg]))
    /\ UNCHANGED <<sock, avail, regVars, bridgeVars, clientVars, hist>>

\* handle_openai_message, lines 64-71, for an event with no handler of its own
LI_Other(t) ==
    /\ Arrive(t, "li_dispatch")
    /\ Top(t).m.type \notin {SpeechStarted, AudioDelta, OutputItemDone, NotObject}
    /\ Go(t, SetTop(stk[t], [Top(t) EXCEPT !.l = "li_loop"]))
    /\ UNCHANGED <<sock, avail, regVars, bridgeVars, clientVars, out, hist>>

\* ------------------------------------ SessionManager._handle_output_item_done
\* The JSON texts a function call is answered with.
ErrorOutputs == {"error: No handler found for function",
                 "error: Invalid JSON arguments for function call",
                 "error: Error running function",
                 "error: Failed to fetch weather data"}
FunctionOutputs == ErrorOutputs \cup {"temp"}

\* FunctionHandlerService.handle_function_call(name, arguments) up to the call of
\* the handler: an unregistered name and a JSONDecodeError give an error text;
\* json.loads of a value that is no string raises TypeError, which is not caught
\* here; arguments that are no object make the handler raise (args.get), which
\* is caught; with an object the weather handler sends its HTTP request.
HandleFunctionCall(name, arguments) ==
    CASE name # Weather           -> [raises |-> FALSE, awaits |-> FALSE,
                                      result |-> "error: No handler found for function"]
      [] arguments = "not_str"    -> [raises |-> TRUE, awaits |-> FALSE, result |-> None]
      [] arguments = "not_json"   -> [raises |-> FALSE, awaits |-> FALSE,
                                      result |-> "error: Invalid JSON arguments for function call"]
      [] arguments = "not_object" -> [raises |-> FALSE, awaits |-> FALSE,
                                      result |-> "error: Error running function"]
      [] OTHER                    -> [raises |-> FALSE, awaits |-> TRUE, result |-> None]

\* _handle_function_call, lines 176-186: the function_call_output item, sent when
\* the bridge holds a client
FC_Output(t, result) ==
    LET st == SetTop(stk[t], [Top(t) EXCEPT !.l = "fc_out_sent"]) IN
    IF openai_client # NoClient
    THEN SendMessage(t, openai_client,
                     [Cmd("openai", "conversation.item.create", Top(t).m.item.call_id, 0)
                        EXCEPT !.p = result], st)
    ELSE Go(t, SetTop(stk[t], [Top(t) EXCEPT !.l = "li_loop"])) /\ UNCHANGED <<clientVars, out>>

\* A variant of FC_Begin that leaves the HTTP request of the tool to run on its
\* own: the read loop goes back to its read while the call is not answered.
FC_BeginDetached(t) ==
    /\ Arrive(t, "li_dispatch")
    /\ Top(t).m.type = OutputItemDone
    /\ LET item == Top(t).m.item
           done == SetTop(stk[t], [Top(t) EXCEPT !.l = "li_loop"])
       IN IF item.type # "function_call"
          THEN Go(t, done) /\ UNCHANGED <<clientVars, out>>
          ELSE LET call == HandleFunctionCall(item.name, item.arguments) IN
               IF call.raises
               THEN Go(t, done) /\ UNCHANGED <<clientVars, out>>
               ELSE IF call.awaits
               THEN /\ Yield(t, SetTop(stk[t], [Top(t) EXCEPT !.l = "li_recv"]))
                    /\ UNCHANGED <<clientVars, out>>
               ELSE FC_Output(t, call.result)
    /\ UNCHANGED <<sock, avail, regVars, bridgeVars, hist>>

\* _handle_output_item_done, lines 156-159, and _handle_function_call, lines
\* 163-173: an item that is no function call is ignored; an error that leaves
\* handle_function_call is logged (line 194) and nothing is sent.
FC_Begin(t) ==
    /\ Arrive(t, "li_dispatch")
    /\ Top(t).m.type = OutputItemDone
    /\ LET item == Top(t).m.item
           done == SetTop(stk[t], [Top(t) EXCEPT !.l = "li_loop"])
       IN IF item.type # "function_call"
          THEN Go(t, done) /\ UNCHANGED <<clientVars, out>>
          ELSE LET call == HandleFunctionCall(item.name, item.arguments) IN
               IF call.raises
               THEN Go(t, done) /\ UNCHANGED <<clientVars, out>>
               ELSE IF call.awaits
               THEN /\ Yield(t, SetTop(stk[t], [Top(t) EXCEPT !.l = "fc_http"]))
                    /\ UNCHANGED <<clientVars, out>>
               ELSE FC_Output(t, call.result)
    /\ UNCHANGED <<sock, avail, regVars, bridgeVars, hist>>

\* FunctionHandlerService._get_weather_handler, lines 119-132: the HTTP request
\* is over, with a temperature or with an error; then the output item
FC_Http(t) ==
    /\ Resume(t, "fc_http")
    /\ \E result \in {"temp", "error: Failed to fetch weather data"} : FC_Output(t, result)
    /\ UNCHANGED <<sock, avail, regVars, bridgeVars, hist>>

\* _handle_function_call, lines 188-192: response.create, to the client the
\* bridge holds now (with none, the AttributeError is logged at line 194)
FC_OutSent(t) ==
    /\ Arrive(t, "fc_out_sent")
    /\ LET st == SetTop(stk[t], [Top(t) EXCEPT !.l = "li_loop"]) IN
       IF openai_client # NoClient
       THEN SendMessage(t, openai_client, Cmd("openai", "response.create", None, 0), st)
       ELSE Go(t, st) /\ UNCHANGED <<clientVars, out>>
    /\ UNCHANGED <<sock, avail, regVars, bridgeVars, hist>>


\* A variant of NothingToTruncate that asks for both fields to be unset.
NothingToTruncateBoth ==
    state.last_assistant_item = None /\ state.response_start_timestamp = NoInt

\* ------------------------------------------- SessionManager._handle_truncation
NothingToTruncate ==
    state.last_assistant_item = None \/ state.response_start_timestamp = NoInt

\* lines 199-217: the guard, the offset, and the truncate command
TR_Begin(t) ==
    /\ Arrive(t, "li_dispatch")
    /\ Top(t).m.type = SpeechStarted
    /\ IF NothingToTruncate
       THEN /\ Go(t, SetTop(stk[t], [Top(t) EXCEPT !.l = "li_loop"]))
            /\ UNCHANGED <<clientVars, out>>
       ELSE LET ms == AudioEndMs(state.latest_media_timestamp,
                                 state.response_start_timestamp)
                st == SetTop(stk[t], [Top(t) EXCEPT !.l = "tr_sent"])
            IN IF openai_client # NoClient
               THEN SendMessage(t, openai_client,
                                Cmd("openai", "conversation.item.truncate",
                                    state.last_assistant_item, ms), st)
               ELSE Go(t, st) /\ UNCHANGED <<clientVars, out>>
    /\ UNCHANGED <<sock, avail, regVars, bridgeVars, hist>>

\* lines 219-225: the clear command
TR_Sent(t) ==
    /\ Arrive(t, "tr_sent")
    /\ LET st == SetTop(stk[t], [Top(t) EXCEPT !.l = "tr_cleared"]) IN
       IF twilio_websocket # None /\ state.stream_sid # None
       THEN SendSocket(t, twilio_websocket, Cmd("twilio", "clear", state.stream_sid, 0), st)
       ELSE Go(t, st) /\ out' = out
    /\ UNCHANGED <<sock, avail, regVars, bridgeVars, clientVars, hist>>


\* A variant of TR_Cleared that leaves response_start_timestamp as it is.
TR_ClearedItemOnly(t) ==
    /\ Arrive(t, "tr_cleared")
    /\ state' = [state EXCEPT !.last_assistant_item = None]
    /\ Go(t, SetTop(stk[t], [Top(t) EXCEPT !.l = "li_loop"]))
    /\ UNCHANGED <<sock, avail, regVars, twilio_websocket, frontend_websocket,
                   openai_client, clientVars, out, hist>>

\* A variant of TR_Cleared that leaves last_assistant_item as it is.
TR_ClearedStartOnly(t) ==
    /\ Arrive(t, "tr_cleared")
    /\ state' = [state EXCEPT !.response_start_timestamp = NoInt]
    /\ Go(t, SetTop(stk[t], [Top(t) EXCEPT !.l = "li_loop"]))
    /\ UNCHANGED <<sock, avail, regVars, twilio_websocket, frontend_websocket,
                   openai_client, clientVars, out, hist>>

\* lines 227-229: the reset
TR_Cleared(t) ==
    /\ Arrive(t, "tr_cleared")
    /\ state' = [state EXCEPT !.last_assistant_item = None,
                              !.response_start_timestamp = NoInt]
    /\ Go(t, SetTop(stk[t], [Top(t) EXCEPT !.l = "li_loop"]))
    /\ UNCHANGED <<sock, avail, regVars, twilio_websocket, frontend_websocket,
                   openai_client, clientVars, out, hist>>


\* A variant of CaptureStart that always captures 0.
CaptureStartZero(latest) == SomeInt(0)

\* ------------------------------------------ SessionManager._handle_audio_delta
\* line 130: latest_media_timestamp or 0
CaptureStart(latest) == SomeInt(SafeIntOpt(latest))

\* A variant of DE_Begin that captures the start with every delta.
DE_BeginRecapture(t) ==
    /\ Arrive(t, "li_dispatch")
    /\ Top(t).m.type = AudioDelta
    /\ LET m == Top(t).m IN
       IF twilio_websocket = None \/ state.stream_sid = None
       THEN /\ Go(t, SetTop(stk[t], [Top(t) EXCEPT !.l = "li_loop"]))
            /\ UNCHANGED <<state, out, hist>>
       ELSE /\ state' = [state EXCEPT
                   !.response_start_timestamp = CaptureStart(state.latest_media_timestamp),
                   !.last_assistant_item = IF m.id # None THEN m.id ELSE @]
            /\ hist' = IF state.response_start_timestamp = NoInt
                       THEN [hist EXCEPT !.chunks = FALSE] ELSE hist
            /\ IF m.payload # ""
               THEN SendSocket(t, twilio_websocket,
                               [Cmd("twilio", "media", state.stream_sid, 0)
                                  EXCEPT !.p = m.payload],
                               SetTop(stk[t], [Top(t) EXCEPT !.l = "de_media"]))
               ELSE Go(t, SetTop(stk[t], [Top(t) EXCEPT !.l = "li_loop"])) /\ out' = out
    /\ UNCHANGED <<sock, avail, regVars, twilio_websocket, frontend_websocket,
                   openai_client, clientVars>>

\* lines 125-145: the guard, the two fields, and the media command
DE_Begin(t) ==
    /\ Arrive(t, "li_dispatch")
    /\ Top(t).m.type = AudioDelta
    /\ LET m == Top(t).m IN
       IF twilio_websocket = None \/ state.stream_sid = None
       THEN /\ Go(t, SetTop(stk[t], [Top(t) EXCEPT !.l = "li_loop"]))
            /\ UNCHANGED <<state, out, hist>>
       ELSE /\ state' = [state EXCEPT
                   !.response_start_timestamp =
                       IF @ = NoInt THEN CaptureStart(state.latest_media_timestamp) ELSE @,
                   !.last_assistant_item = IF m.id # None THEN m.id ELSE @]
            /\ hist' = IF state.response_start_timestamp = NoInt
                       THEN [hist EXCEPT !.chunks = FALSE] ELSE hist
            /\ IF m.payload # ""
               THEN SendSocket(t, twilio_websocket,
                               [Cmd("twilio", "media", state.stream_sid, 0)
                                  EXCEPT !.p = m.payload],
                               SetTop(stk[t], [Top(t) EXCEPT !.l = "de_media"]))
               ELSE Go(t, SetTop(stk[t], [Top(t) EXCEPT !.l = "li_loop"])) /\ out' = out
    /\ UNCHANGED <<sock, avail, regVars, twilio_websocket, frontend_websocket,
                   openai_client, clientVars>>

\* lines 147-152: the mark command, built from the stream id as it is now
DE_Media(t) ==
    /\ Arrive(t, "de_media")
    /\ SendSocket(t, twilio_websocket, Cmd("twilio", "mark", state.stream_sid, 0),
                  SetTop(stk[t], [Top(t) EXCEPT !.l = "li_loop"]))
    /\ UNCHANGED <<sock, avail, regVars, bridgeVars, clientVars, hist>>

\* ------------------------------------------------ SessionManager: cleanup
\* _cleanup_twilio_connection, lines 284-286: close the handle, if there is one
CL_Twilio(t) ==
    /\ Cont(t, "cl_twilio")
    /\ IF twilio_websocket # None
       THEN /\ sock' = CloseSocket(sock, twilio_websocket)
            /\ Yield(t, SetTop(stk[t], [Top(t) EXCEPT !.l = "cl_twilio_closed"]))
       ELSE /\ Return(t)
            /\ UNCHANGED sock
    /\ UNCHANGED <<avail, regVars, bridgeVars, clientVars, out, hist>>

\* A variant of CL_TwilioClosed that keeps the handle.
CL_TwilioClosedKeeps(t) ==
    /\ Resume(t, "cl_twilio_closed")
    /\ Return(t)
    /\ UNCHANGED <<sock, avail, regVars, bridgeVars, clientVars, out, hist>>

\* _cleanup_twilio_connection, lines 289-290: finally, the handle is dropped
CL_TwilioClosed(t) ==
    /\ Resume(t, "cl_twilio_closed")
    /\ twilio_websocket' = None
    /\ Return(t)
    /\ UNCHANGED <<sock, avail, regVars, frontend_websocket, openai_client, state,
                   clientVars, out, hist>>

\* _cleanup_frontend_connection, lines 294-296
CL_Frontend(t) ==
    /\ Cont(t, "cl_frontend")
    /\ IF frontend_websocket # None
       THEN /\ sock' = CloseSocket(sock, frontend_websocket)
            /\ Yield(t, SetTop(stk[t], [Top(t) EXCEPT !.l = "cl_frontend_closed"]))
       ELSE /\ Return(t)
            /\ UNCHANGED sock
    /\ UNCHANGED <<avail, regVars, bridgeVars, clientVars, out, hist>>

\* _cleanup_frontend_connection, lines 299-300
CL_FrontendClosed(t) ==
    /\ Resume(t, "cl_frontend_closed")
    /\ frontend_websocket' = None
    /\ Return(t)
    /\ UNCHANGED <<sock, avail, regVars, twilio_websocket, openai_client, state,
                   clientVars, out, hist>>

\* disconnect_all, line 75
DA_Begin(t) ==
    /\ Cont(t, "da_begin")
    /\ Go(t, Push(SetTop(stk[t], [Top(t) EXCEPT !.l = "da_fe"]), Frame("cl_twilio")))
    /\ UNCHANGED <<sock, avail, regVars, bridgeVars, clientVars, out, hist>>

\* disconnect_all, line 76
DA_Fe(t) ==
    /\ Cont(t, "da_fe")
    /\ Go(t, Push(SetTop(stk[t], [Top(t) EXCEPT !.l = "da_oa"]), Frame("cl_frontend")))
    /\ UNCHANGED <<sock, avail, regVars, bridgeVars, clientVars, out, hist>>

\* task.cancel() on the reconnect task of c: the task ends where it is suspended,
\* and so does the read loop it is awaiting inside connect().  None of the frames
\* a cancelled task unwinds through changes the program's state (connect catches
\* Exception, which CancelledError is not; _reconnect_loop catches it and breaks).
Awaited(st) == {st[j].k : j \in {h \in 1..Len(st) : st[h].l = "co_wait"}}
Cancelled(c) ==
    IF tst[RTask(c)] = "live"
    THEN {RTask(c)} \cup {LTask(k) : k \in {j \in Awaited(stk[RTask(c)]) : tst[LTask(j)] = "live"}}
    ELSE {}
CancelStk(c) == [x \in Tasks |-> IF x \in Cancelled(c) THEN <<>> ELSE stk[x]]
CancelTst(c) == [x \in Tasks |-> IF x \in Cancelled(c) THEN "cancelled" ELSE tst[x]]
CancelOut(c) == [x \in Tasks |-> IF x \in Cancelled(c) THEN <<>> ELSE out[x]]

\* OpenAIClient.disconnect(disable_reconnect=True), lines 88-95
Disabled(cl) == [cl EXCEPT !.auto_reconnect = FALSE, !.is_connected = FALSE]

\* disconnect_all, lines 77-78: _cleanup_openai_connection, that is
\* OpenAIClient.disconnect up to its close of the transport, and, when there is
\* nothing to close or no client, the reset of the session state.
DA_Oa(t) ==
    /\ Cont(t, "da_oa")
    /\ IF openai_client = NoClient
       THEN /\ state' = SessionState
            /\ Return(t)
            /\ UNCHANGED <<openai_client, clientVars, out>>
       ELSE LET c == openai_client
                k == client[c].websocket
            IN /\ client' = [client EXCEPT ![c] = Disabled(@)]
               /\ out' = CancelOut(c)
               /\ IF k # NoTransport
                  THEN /\ transport' = [transport EXCEPT ![k].st =
                                          IF @ = "open" THEN "closed_ok" ELSE @]
                       /\ YieldB(t, SetTop(stk[t], [Top(t) EXCEPT !.l = "da_oa_closed",
                                                                   !.c = c]),
                                 CancelStk(c), CancelTst(c))
                       /\ UNCHANGED <<openai_client, state>>
                  ELSE /\ openai_client' = NoClient
                       /\ state' = SessionState
                       /\ GoB(t, Pop(stk[t]), CancelStk(c), CancelTst(c))
                       /\ UNCHANGED transport
    /\ UNCHANGED <<sock, avail, regVars, twilio_websocket, frontend_websocket, hist>>

\* OpenAIClient.disconnect, lines 102-103 (finally: the transport handle is
\* dropped), then _cleanup_openai_connection, line 306, and disconnect_all, line 78
DA_OaClosed(t) ==
    /\ Resume(t, "da_oa_closed")
    /\ client' = [client EXCEPT ![Top(t).c].websocket = NoTransport]
    /\ openai_client' = NoClient
    /\ state' = SessionState
    /\ Return(t)
    /\ UNCHANGED <<sock, avail, regVars, twilio_websocket, frontend_websocket,
                   transport, out, hist>>

\* ------------------------------------------------- inbound dispatchers
\* The session payloads an observer may send: "empty" is {} (falsy in Python),
\* "cfg1" is {"voice": "alloy"} and "cfg2" is {"voice": "verse",
\* "instructions": "be brief"}.
Configs == {"empty", "cfg1", "cfg2"}
Truthy(cfg) == cfg \notin {None, "empty"}

\* The socket a dispatcher task serves.
Own(t) == stk[t][1].s

\* A peer opens a connection to /ws/call or /ws/logs: the endpoint starts
\* handle_call_connection or handle_logs_connection, which first calls
\* connection_manager.connect (handlers.py, lines 27 and 55).
PeerConnect(s) ==
    /\ cpu = NoTask
    /\ s \in avail
    /\ sock[s] = "new"
    /\ tst[DTask(s)] = "new"
    /\ sock' = [sock EXCEPT ![s] = "pending"]
    /\ tst' = [tst EXCEPT ![DTask(s)] = "live"]
    /\ stk' = [stk EXCEPT ![DTask(s)] =
                 <<[Frame("d_accepted") EXCEPT !.s = s],
                   [Frame("cm_connect") EXCEPT !.s = s]>>]
    /\ cpu' = DTask(s)
    /\ UNCHANGED <<avail, regVars, bridgeVars, clientVars, out, hist>>

\* handlers.py, lines 28 and 56, and SessionManager.handle_twilio_connection /
\* handle_frontend_connection, line 28 / 34: clean up the previous handle
D_Accepted(t) ==
    /\ Cont(t, "d_accepted")
    /\ Go(t, Push(SetTop(stk[t], [Top(t) EXCEPT !.l = "d_registered"]),
                  IF RoleOf(Own(t)) = "call" THEN Frame("cl_twilio")
                  ELSE Frame("cl_frontend")))
    /\ UNCHANGED <<sock, avail, regVars, bridgeVars, clientVars, out, hist>>

\* handle_twilio_connection, line 29 / handle_frontend_connection, line 35: the
\* new handle is kept, and the dispatcher starts to read
D_Registered(t) ==
    /\ Cont(t, "d_registered")
    /\ IF RoleOf(Own(t)) = "call"
       THEN twilio_websocket' = Own(t) /\ UNCHANGED frontend_websocket
       ELSE frontend_websocket' = Own(t) /\ UNCHANGED twilio_websocket
    /\ Yield(t, SetTop(stk[t], [Top(t) EXCEPT !.l = "d_recv"]))
    /\ UNCHANGED <<sock, avail, regVars, openai_client, state, clientVars, out, hist>>

\* the handler of a frame has returned: back to receive_text
D_Loop(t) ==
    /\ Arrive(t, "d_loop")
    /\ out' = [out EXCEPT ![t] = <<>>]
    /\ Yield(t, SetTop(stk[t], [Top(t) EXCEPT !.l = "d_recv", !.ok = FALSE, !.m = NoMsg]))
    /\ UNCHANGED <<sock, avail, regVars, bridgeVars, clientVars, hist>>

\* receive_text raises once the connection has ended (WebSocketDisconnect, or an
\* error after the server's own close): handlers.py, lines 39-45 / 66-72
D_RecvClosed(t) ==
    /\ Resume(t, "d_recv")
    /\ sock[Own(t)] # "open"
    /\ Go(t, SetTop(stk[t], [Top(t) EXCEPT !.l = "d_finally"]))
    /\ UNCHANGED <<sock, avail, regVars, bridgeVars, clientVars, out, hist>>

\* a frame that is no JSON text (_parse_message gives None) or a JSON value that
\* Python takes for false (null, false, 0, "", [], {}): the loop goes on with
\* the next frame
D_DropFrame(t) ==
    /\ Resume(t, "d_recv")
    /\ sock[Own(t)] = "open"
    /\ Go(t, SetTop(stk[t], [Top(t) EXCEPT !.l = "d_loop"]))
    /\ UNCHANGED <<sock, avail, regVars, bridgeVars, clientVars, out, hist>>

\* a frame that is JSON, true for Python, and no object (a number, a string, a
\* list): message.get raises, and the dispatcher's except clause ends the loop.
\* (On the observer leg with a client the frame is first handed to send_message;
\* the action is the case without a client.)
D_BadFrame(t) ==
    /\ Resume(t, "d_recv")
    /\ sock[Own(t)] = "open"
    /\ RoleOf(Own(t)) = "logs" => openai_client = NoClient
    /\ Go(t, SetTop(stk[t], [Top(t) EXCEPT !.l = "d_finally", !.m = [NoMsg EXCEPT !.type = "bad"]]))
    /\ UNCHANGED <<sock, avail, regVars, bridgeVars, clientVars, out, hist>>

\* finally: connection_manager.disconnect(websocket), and for the media role
\* session_manager.disconnect_all() (handlers.py, lines 43-45 / 70-72)
D_Finally(t) ==
    /\ Cont(t, "d_finally")
    /\ LET reg == Disconnect(active_connections, connection_types, Own(t)) IN
       /\ active_connections' = reg.ac
       /\ connection_types' = reg.ct
    /\ IF RoleOf(Own(t)) = "call"
       THEN Go(t, <<[Frame("da_begin") EXCEPT !.s = Own(t)]>>)
       ELSE Go(t, <<>>)
    /\ UNCHANGED <<sock, avail, bridgeVars, clientVars, out, hist>>

FreshClient == CHOOSE c \in Clients :
                  ~client[c].created /\ \A j \in 1..(c - 1) : client[j].created

\* OpenAIClient() as SessionManager._try_connect_openai sets it up, lines 239-258
CreatedClient(saved) ==
    [created |-> TRUE, websocket |-> NoTransport, is_connected |-> FALSE,
     auto_reconnect |-> TRUE, current_reconnect_attempts |-> 0,
     session_config |-> IF Truthy(saved) THEN saved ELSE None]

\* _try_connect_openai, lines 233-237: nothing to do
NoConnectNeeded(sid) ==
    \/ sid = None
    \/ openai_client # NoClient /\ client[openai_client].is_connected


\* A variant of D_Start that leaves latest_media_timestamp as it is.
D_StartKeepsTimestamp(t) ==
    /\ Resume(t, "d_recv")
    /\ RoleOf(Own(t)) = "call"
    /\ sock[Own(t)] = "open"
    /\ \E sid \in StreamIds \cup {None} :
         LET st == SetTop(stk[t], [Top(t) EXCEPT !.l = "d_loop",
                                                 !.m = [NoMsg EXCEPT !.type = "start", !.id = sid]])
         IN
         /\ state' = [state EXCEPT !.stream_sid = sid,
                                   !.last_assistant_item = None,
                                   !.response_start_timestamp = NoInt]
         /\ IF NoConnectNeeded(sid)
            THEN /\ Go(t, st)
                 /\ UNCHANGED <<openai_client, client>>
            ELSE /\ \E c \in Clients : ~client[c].created
                 /\ openai_client' = FreshClient
                 /\ client' = [client EXCEPT ![FreshClient] = CreatedClient(state.saved_config)]
                 /\ Yield(t, Push(st, [Frame("co_dial") EXCEPT !.c = FreshClient]))
    /\ UNCHANGED <<sock, avail, regVars, twilio_websocket, frontend_websocket,
                   transport, out, hist>>

\* A "start" frame: SessionManager._handle_twilio_start and _try_connect_openai
D_Start(t) ==
    /\ Resume(t, "d_recv")
    /\ RoleOf(Own(t)) = "call"
    /\ sock[Own(t)] = "open"
    /\ \E sid \in StreamIds \cup {None} :
         LET st == SetTop(stk[t], [Top(t) EXCEPT !.l = "d_loop",
                                                 !.m = [NoMsg EXCEPT !.type = "start", !.id = sid]])
         IN
         /\ state' = [state EXCEPT !.stream_sid = sid,
                                   !.latest_media_timestamp = SomeInt(0),
                                   !.last_assistant_item = None,
                                   !.response_start_timestamp = NoInt]
         /\ IF NoConnectNeeded(sid)
            THEN /\ Go(t, st)
                 /\ UNCHANGED <<openai_client, client>>
            ELSE /\ \E c \in Clients : ~client[c].created
                 /\ openai_client' = FreshClient
                 /\ client' = [client EXCEPT ![FreshClient] = CreatedClient(state.saved_config)]
                 /\ Yield(t, Push(st, [Frame("co_dial") EXCEPT !.c = FreshClient]))
    /\ UNCHANGED <<sock, avail, regVars, twilio_websocket, frontend_websocket,
                   transport, out, hist>>


\* A variant of D_Media that hands the chunk to a client that is not connected.
D_MediaToAnyClient(t) ==
    /\ Resume(t, "d_recv")
    /\ RoleOf(Own(t)) = "call"
    /\ sock[Own(t)] = "open"
    /\ \E raw \in TsRaw, p \in Payloads \cup {""} :
         IF SafeInt(raw).raises
         THEN /\ Go(t, SetTop(stk[t], [Top(t) EXCEPT !.l = "d_finally",
                           !.m = [NoMsg EXCEPT !.type = "media", !.ts = raw]]))
              /\ UNCHANGED <<state, clientVars, out, hist>>
         ELSE /\ state' = [state EXCEPT !.latest_media_timestamp = SomeInt(SafeInt(raw).v)]
              /\ hist' = [hist EXCEPT !.chunks = TRUE]
              /\ LET st == SetTop(stk[t], [Top(t) EXCEPT !.l = "d_loop",
                                  !.m = [NoMsg EXCEPT !.type = "media", !.payload = p]])
                 IN
                 IF openai_client # NoClient
                 THEN SendMessage(t, openai_client,
                                  [Cmd("openai", "input_audio_buffer.append", None, 0)
                                     EXCEPT !.p = p], st)
                 ELSE Go(t, st) /\ UNCHANGED <<clientVars, out>>
    /\ UNCHANGED <<sock, avail, regVars, twilio_websocket, frontend_websocket,
                   openai_client>>

\* A "media" frame: SessionManager._handle_twilio_media
D_Media(t) ==
    /\ Resume(t, "d_recv")
    /\ RoleOf(Own(t)) = "call"
    /\ sock[Own(t)] = "open"
    /\ \E raw \in TsRaw, p \in Payloads \cup {""} :
         IF SafeInt(raw).raises
         THEN /\ Go(t, SetTop(stk[t], [Top(t) EXCEPT !.l = "d_finally",
                           !.m = [NoMsg EXCEPT !.type = "media", !.ts = raw]]))
              /\ UNCHANGED <<state, clientVars, out, hist>>
         ELSE /\ state' = [state EXCEPT !.latest_media_timestamp = SomeInt(SafeInt(raw).v)]
              /\ hist' = [hist EXCEPT !.chunks = TRUE]
              /\ LET st == SetTop(stk[t], [Top(t) EXCEPT !.l = "d_loop",
                                  !.m = [NoMsg EXCEPT !.type = "media", !.payload = p]])
                 IN
                 IF openai_client # NoClient /\ client[openai_client].is_connected
                 THEN SendMessage(t, openai_client,
                                  [Cmd("openai", "input_audio_buffer.append", None, 0)
                                     EXCEPT !.p = p], st)
                 ELSE Go(t, st) /\ UNCHANGED <<clientVars, out>>
    /\ UNCHANGED <<sock, avail, regVars, twilio_websocket, frontend_websocket,
                   openai_client>>

\* A "close" frame: SessionManager._handle_twilio_close
D_Close(t) ==
    /\ Resume(t, "d_recv")
    /\ RoleOf(Own(t)) = "call"
    /\ sock[Own(t)] = "open"
    /\ Go(t, Push(SetTop(stk[t], [Top(t) EXCEPT !.l = "d_loop"]), Frame("da_begin")))
    /\ UNCHANGED <<sock, avail, regVars, bridgeVars, clientVars, out, hist>>

\* A message of the observer: SessionManager.handle_frontend_message, lines 52-53
FM_Begin(t) ==
    /\ Resume(t, "d_recv")
    /\ RoleOf(Own(t)) = "logs"
    /\ sock[Own(t)] = "open"
    /\ \E ty \in {"session.update", "other"}, cfg \in Configs :
         LET m == [NoMsg EXCEPT !.type = ty, !.payload = cfg]
             st == SetTop(stk[t], [Top(t) EXCEPT !.l = "fm_sent", !.m = m])
         IN IF openai_client # NoClient
            THEN SendMessage(t, openai_client,
                             [Cmd("openai", ty, None, 0) EXCEPT !.p = cfg], st)
            ELSE Go(t, st) /\ UNCHANGED <<clientVars, out>>
    /\ UNCHANGED <<sock, avail, regVars, bridgeVars, hist>>


\* A variant of FM_Sent that saves the payload of every message.
FM_SentAnyType(t) ==
    /\ Arrive(t, "fm_sent")
    /\ state' = [state EXCEPT !.saved_config = Top(t).m.payload]
    /\ Go(t, SetTop(stk[t], [Top(t) EXCEPT !.l = "d_loop"]))
    /\ UNCHANGED <<sock, avail, regVars, twilio_websocket, frontend_websocket,
                   openai_client, clientVars, out, hist>>

\* handle_frontend_message, lines 56-57
FM_Sent(t) ==
    /\ Arrive(t, "fm_sent")
    /\ state' = IF Top(t).m.type = "session.update"
                THEN [state EXCEPT !.saved_config = Top(t).m.payload]
                ELSE state
    /\ Go(t, SetTop(stk[t], [Top(t) EXCEPT !.l = "d_loop"]))
    /\ UNCHANGED <<sock, avail, regVars, twilio_websocket, frontend_websocket,
                   openai_client, clientVars, out, hist>>

\* ------------------------------------- a caller of send_message (harness)
\* A task that calls send_message of the bridge's client again and again, with
\* a message that can be serialised or one that cannot.
S_Start ==
    /\ cpu = NoTask
    /\ tst[Sender] = "new"
    /\ tst' = [tst EXCEPT ![Sender] = "live"]
    /\ stk' = [stk EXCEPT ![Sender] = <<Frame("s_idle")>>]
    /\ UNCHANGED <<sock, avail, regVars, bridgeVars, clientVars, cpu, out, hist>>

S_Send(t) ==
    /\ Resume(t, "s_idle")
    /\ openai_client # NoClient
    /\ \E ty \in {"response.create", Unserializable} :
         SendMessage(t, openai_client, Cmd("openai", ty, None, 0),
                     SetTop(stk[t], [Top(t) EXCEPT !.l = "s_sent", !.c = openai_client]))
    /\ UNCHANGED <<sock, avail, regVars, bridgeVars, hist>>

S_Sent(t) ==
    /\ Arrive(t, "s_sent")
    /\ out' = [out EXCEPT ![t] = <<>>]
    /\ Yield(t, SetTop(stk[t], [Top(t) EXCEPT !.l = "s_idle", !.c = NoClient]))
    /\ UNCHANGED <<sock, avail, regVars, bridgeVars, clientVars, hist>>

\* configure_reconnect(auto_reconnect=False, ...) with the other parameters as
\* the bridge sets them: the flag goes off and no task is cancelled.
S_Disable(t) ==
    /\ Resume(t, "s_idle")
    /\ openai_client # NoClient
    /\ client[openai_client].auto_reconnect
    /\ client' = [client EXCEPT ![openai_client].auto_reconnect = FALSE]
    /\ Yield(t, stk[t])
    /\ UNCHANGED <<sock, avail, regVars, bridgeVars, transport, out, hist>>

\* ------------------------------------------------------------------- Init
\* chunks: a media frame has been handled since the last capture of
\* response_start_timestamp; fails[c]: the reconnect attempts of client c that
\* have failed since its last successful connect.
NoHist == [chunks |-> FALSE, fails |-> [c \in Clients |-> 0]]

InitWith(sockets) ==
    /\ sock = [s \in Sockets |-> "new"]
    /\ avail = sockets
    /\ active_connections = [r \in Roles |-> <<>>]
    /\ connection_types = [s \in Sockets |-> None]
    /\ twilio_websocket = None
    /\ frontend_websocket = None
    /\ openai_client = NoClient
    /\ state = SessionState
    /\ client = [c \in Clients |-> NewClient]
    /\ transport = [k \in Transports |-> NewTransport]
    /\ stk = [t \in Tasks |-> <<>>]
    /\ tst = [t \in Tasks |-> "new"]
    /\ cpu = NoTask
    /\ out = [t \in Tasks |-> <<>>]
    /\ hist = NoHist

\* -------------------------------------------------- the registry on its own
InitRegistry == InitWith({"w1", "w2", "f1"})

RegistryStep(t) ==
    \/ CM_Connect(t)
    \/ CM_Accepted(t)
    \/ CM_Evict(t)
    \/ CM_SendTo(t)
    \/ CM_Ret(t)
    \/ CM_Broadcast(t)

NextRegistry ==
    \/ \E s \in Sockets : H_Start(s) \/ PeerClose(s)
    \/ \E s \in Sockets : RegistryStep(HTask(s))
    \/ \E s \in Sockets : H_Release(HTask(s)) \/ H_SendTo(HTask(s)) \/ H_Broadcast(HTask(s))

SpecRegistry == InitRegistry /\ [][NextRegistry]_vars

\* --------------------------------------------- one call on the telephony leg
\* One connection to /ws/call and no observer.
Init == InitWith({"w1"})

\* the steps of the read loop and of the handlers it calls
ListenStep(t) ==
    \/ LI_Event(t) \/ LI_Closed(t) \/ LI_Loop(t) \/ LI_Other(t)
    \/ LI_Skip(t) \/ LI_Raises(t)
    \/ TR_Begin(t) \/ TR_Sent(t) \/ TR_Cleared(t)
    \/ DE_Begin(t) \/ DE_Media(t)
    \/ FC_Begin(t) \/ FC_Http(t) \/ FC_OutSent(t)

\* the steps of OpenAIClient.connect, _handle_disconnection and _reconnect_loop
\* (with no observer, on_disconnected returns without suspending: no HD_Cb)
ClientStep(t) ==
    \/ HD(t)
    \/ CO_DialOk(t) \/ CO_DialFail(t) \/ CO_Wait(t) \/ CO_Sent(t) \/ CO_Cb(t)
    \/ RL_Top(t) \/ RL_Sleep(t) \/ RL_Connected(t)

\* the steps of the clean-up and of disconnect_all
TeardownStep(t) ==
    \/ CL_Twilio(t) \/ CL_TwilioClosed(t) \/ CL_Frontend(t)
    \/ DA_Begin(t) \/ DA_Fe(t) \/ DA_Oa(t) \/ DA_OaClosed(t)

\* the steps of a dispatcher of the telephony leg
CallStep(t) ==
    \/ CM_Connect(t) \/ CM_Accepted(t)
    \/ D_Accepted(t) \/ D_Registered(t) \/ D_Loop(t) \/ D_RecvClosed(t)
    \/ D_DropFrame(t) \/ D_BadFrame(t) \/ D_Finally(t)
    \/ D_Start(t) \/ D_Media(t) \/ D_Close(t)

BridgeStep(t) == ListenStep(t) \/ ClientStep(t) \/ TeardownStep(t) \/ CallStep(t)

Next ==
    \/ \E s \in Sockets : PeerConnect(s) \/ PeerClose(s)
    \/ \E k \in Transports : PeerDrop(k)
    \/ \E t \in Tasks : BridgeStep(t)

Spec == Init /\ [][Next]_vars

\* The event loop runs every task that is ready: a task that can go on again and
\* again, whenever the loop is free to pick one, does go on (a step of another
\* task disables it only until that task suspends).  Nothing is assumed of the
\* peers (PeerConnect, PeerClose, PeerDrop).
SpecFair == Spec /\ \A t \in Tasks : SF_vars(BridgeStep(t))

\* ------------------------------------------------- the observer leg on its own
\* Two connections to /ws/logs, one after the other or at once, and no call.
InitObserver == InitWith({"f1", "f2"})

ObserverStep(t) ==
    \/ CM_Connect(t) \/ CM_Accepted(t) \/ CM_Evict(t)
    \/ CL_Frontend(t) \/ CL_FrontendClosed(t)
    \/ D_Accepted(t) \/ D_Registered(t) \/ D_Loop(t) \/ D_RecvClosed(t)
    \/ D_DropFrame(t) \/ D_BadFrame(t) \/ D_Finally(t)
    \/ FM_Begin(t) \/ FM_Sent(t)

NextObserver ==
    \/ \E s \in Sockets : PeerConnect(s) \/ PeerClose(s)
    \/ \E t \in Tasks : ObserverStep(t)

SpecObserver == InitObserver /\ [][NextObserver]_vars

\* ------------------------------------------------ two calls, one after the other
\* Two connections to /ws/call: the second evicts the first.  The frames are
\* 'start' and 'close' only, and the speech endpoint sends no events.
InitTwoCalls == InitWith({"w1", "w2"})

TwoCallsStep(t) ==
    \/ CM_Connect(t) \/ CM_Accepted(t) \/ CM_Evict(t)
    \/ D_Accepted(t) \/ D_Registered(t) \/ D_Loop(t) \/ D_RecvClosed(t)
    \/ D_Finally(t) \/ D_Start(t) \/ D_Close(t)
    \/ TeardownStep(t)
    \/ ClientStep(t)
    \/ LI_Closed(t)

NextTwoCalls ==
    \/ \E s \in Sockets : PeerConnect(s) \/ PeerClose(s)
    \/ \E k \in Transports : PeerDrop(k)
    \/ \E t \in Tasks : TwoCallsStep(t)

SpecTwoCalls == InitTwoCalls /\ [][NextTwoCalls]_vars

\* ------------------------------------------------------ a call with an observer
\* One connection to /ws/call, whose only frame is 'start' and which stays open,
\* and one to /ws/logs, which sends its messages and may close; the speech
\* endpoint sends no events.
InitMonitored == InitWith({"w1", "f1"})

MonitoredStep(t) ==
    \/ CM_Connect(t) \/ CM_Accepted(t)
    \/ D_Accepted(t) \/ D_Registered(t) \/ D_Loop(t) \/ D_RecvClosed(t)
    \/ D_Finally(t) \/ D_Start(t)
    \/ FM_Begin(t) \/ FM_Sent(t)
    \/ CL_Twilio(t) \/ CL_Frontend(t)
    \/ ClientStep(t) \/ HD_Cb(t)
    \/ LI_Closed(t)

NextMonitored ==
    \/ \E s \in Sockets : PeerConnect(s)
    \/ \E s \in LogSockets : PeerClose(s)
    \/ \E k \in Transports : PeerDrop(k)
    \/ \E t \in Tasks : MonitoredStep(t)

SpecMonitored == InitMonitored /\ [][NextMonitored]_vars

\* ------------------------------------------- a call with a silent observer
\* One connection to /ws/call, whose only frame is 'start', and one to /ws/logs,
\* which sends nothing; the speech endpoint sends its events, and either peer
\* may close its connection.
MirroredStep(t) ==
    \/ CM_Connect(t) \/ CM_Accepted(t)
    \/ D_Accepted(t) \/ D_Registered(t) \/ D_Loop(t) \/ D_RecvClosed(t)
    \/ D_Finally(t) \/ D_Start(t)
    \/ TeardownStep(t) \/ CL_FrontendClosed(t)
    \/ ClientStep(t) \/ HD_Cb(t)
    \/ ListenStep(t)

NextMirrored ==
    \/ \E s \in Sockets : PeerConnect(s) \/ PeerClose(s)
    \/ \E k \in Transports : PeerDrop(k)
    \/ \E t \in Tasks : MirroredStep(t)

SpecMirrored == InitMonitored /\ [][NextMirrored]_vars

\* ------------------------------- a call, a silent observer and a sender
\* One connection to /ws/call, whose frames are 'start' and 'close', one to
\* /ws/logs, which sends nothing, no events of the speech endpoint, and a task
\* that calls send_message.
SenderStep(t) ==
    \/ CM_Connect(t) \/ CM_Accepted(t)
    \/ D_Accepted(t) \/ D_Registered(t) \/ D_Loop(t) \/ D_RecvClosed(t)
    \/ D_Finally(t) \/ D_Start(t) \/ D_Close(t)
    \/ TeardownStep(t) \/ CL_FrontendClosed(t)
    \/ ClientStep(t) \/ HD_Cb(t)
    \/ LI_Closed(t)
    \/ S_Send(t) \/ S_Sent(t)

NextSender ==
    \/ \E s \in Sockets : PeerConnect(s) \/ PeerClose(s)
    \/ \E k \in Transports : PeerDrop(k)
    \/ S_Start
    \/ \E t \in Tasks : SenderStep(t)

SpecSender == InitMonitored /\ [][NextSender]_vars

\* The same with a caller that may also turn auto-reconnect off.
NextDisabler == NextSender \/ S_Disable(Sender)

SpecDisabler == InitMonitored /\ [][NextDisabler]_vars

\* ================================================================ properties
\* the frame of connect() in which a task awaits the read loop it has started
WaitsForReadLoop(t) ==
    \E j \in 1..Len(stk[t]) :
       /\ stk[t][j].l = "co_wait"
       /\ tst[LTask(stk[t][j].k)] = "live"
       /\ transport[stk[t][j].k].st = "open"
       /\ client[stk[t][j].c].is_connected

\* C1, as stated: handling of telephony frames after a 'start' event does not wait
\* for the speech connection to end, so no dispatcher of the telephony leg whose
\* socket is open is held inside connect() by the read loop of a live speech
\* connection (media frames that arrive then are not forwarded while it is live).
C1_StartDoesNotWaitForReadLoop ==
    \A s \in CallSockets :
       (tst[DTask(s)] = "live" /\ sock[s] = "open") => ~WaitsForReadLoop(DTask(s))

\* C2, as stated: when connect() returns success, session.update has been
\* transmitted on the connection that this connect() opened.
C2_SessionUpdateSentOnNewConnection ==
    \A t \in Tasks :
       At(t, "co_cb") => transport[Top(t).k].su

\* the telephony peer has ended its connection while a speech session is live
CallEndedLive ==
    \E s \in CallSockets :
       /\ sock[s] = "pclosed"
       /\ twilio_websocket = s
       /\ openai_client # NoClient
       /\ client[openai_client].is_connected

\* the torn-down state of the bridge
TornDown ==
    /\ openai_client = NoClient
    /\ \A c \in Clients : client[c].created => (~client[c].is_connected /\ ~client[c].auto_reconnect)
    /\ twilio_websocket = None
    /\ frontend_websocket = None
    /\ state = SessionState

\* C3, as stated: when the telephony connection is closed while a speech session
\* is live, the system reaches the torn-down state.
C3_CloseLeadsToTornDown == CallEndedLive ~> TornDown

\* task t, at label l, takes a step of its own
Stepped(t, l) == At(t, l) /\ tst'[t] # "cancelled" /\ stk'[t] # stk[t]
\* the label task t is at after the step (None when it has ended)
LabelAfter(t) == IF stk'[t] = <<>> THEN None ELSE stk'[t][Len(stk'[t])].l
\* the step appends one command to the output of t's handler: to, type, id, n
Emits(t, to, type, id, n) ==
    /\ Len(out'[t]) = Len(out[t]) + 1
    /\ SubSeq(out'[t], 1, Len(out[t])) = out[t]
    /\ LET e == out'[t][Len(out'[t])] IN
       e.to = to /\ e.type = type /\ e.id = id /\ e.n = n
EmitsNothing(t) == out'[t] = out[t]
\* Python's int of an Optional[int] field, None read as 0
IntOr0(x) == IF x = NoInt THEN 0 ELSE x[1]
Truncate == "conversation.item.truncate"

\* C4: every role holds at most one connection in the registry, in every state
\* and under any interleaving of accept, release, send_to and broadcast calls; and
\* when an accept completes, the role's list is exactly the accepted connection.
AtMostOnePerRole == \A r \in Roles : Len(active_connections[r]) <= 1
AcceptLeavesOne ==
    \A t \in Tasks :
       (Stepped(t, "cm_accepted") \/ Stepped(t, "cm_evict")) /\ LabelAfter(t) \notin {"cm_evict"}
          => active_connections'[RoleOf(Top(t).s)] = <<Top(t).s>>
C4_OneConnectionPerRole == []AtMostOnePerRole /\ [][AcceptLeavesOne]_vars

\* C4, the case: a second accept for the call role has completed and has evicted
\* the first connection.
C4_Witness ==
    /\ active_connections["call"] = <<"w2">>
    /\ sock["w1"] = "sclosed"
    /\ tst[HTask("w2")] = "live" /\ Top(HTask("w2")).l = "h_idle"

\* the steps of _handle_truncation when both fields are set, with the clear
\* command either in every case (as C5 states it) or under the guard of the code
TruncationStartsSet(t) ==
    /\ Stepped(t, "li_dispatch")
    /\ Top(t).m.type = SpeechStarted
    /\ state.last_assistant_item # None
    /\ state.response_start_timestamp # NoInt
TruncateEmitted(t) ==
    Emits(t, "openai", Truncate, state.last_assistant_item,
          Max(IntOr0(state.latest_media_timestamp) - IntOr0(state.response_start_timestamp), 0))
ClearEmitted(t) ==
    state.stream_sid # None /\ Emits(t, "twilio", "clear", state.stream_sid, 0)
FieldsReset ==
    state'.last_assistant_item = None /\ state'.response_start_timestamp = NoInt

\* C5, as stated: a speech_started event handled with both fields set sends the
\* truncate command, then the clear command for the current stream id, then
\* resets both fields.
C5_TruncateClearReset ==
    [][\A t \in Tasks :
         /\ TruncationStartsSet(t) => TruncateEmitted(t) /\ LabelAfter(t) \in {"tr_sent", "hd"}
         /\ Stepped(t, "tr_sent") => ClearEmitted(t) /\ LabelAfter(t) = "tr_cleared"
         /\ Stepped(t, "tr_cleared") => FieldsReset /\ LabelAfter(t) = "li_loop"]_vars

\* C5, amended: the truncate command is sent when the bridge holds a speech
\* client, the clear command when the telephony handle and the stream id are
\* both still set at that point (otherwise nothing is sent in that step), and the
\* two fields are reset in every case.
C5_TruncateClearIfLegReset ==
    [][\A t \in Tasks :
         /\ TruncationStartsSet(t) =>
               /\ IF openai_client # NoClient THEN TruncateEmitted(t) ELSE EmitsNothing(t)
               /\ LabelAfter(t) \in {"tr_sent", "hd"}
         /\ Stepped(t, "tr_sent") =>
               /\ IF twilio_websocket # None /\ state.stream_sid # None
                  THEN ClearEmitted(t) ELSE EmitsNothing(t)
               /\ LabelAfter(t) = "tr_cleared"
         /\ Stepped(t, "tr_cleared") => FieldsReset /\ LabelAfter(t) = "li_loop"]_vars

\* C5, the case: a truncation has completed with both commands written and the
\* fields reset.
C5_Witness ==
    \E t \in Tasks :
       /\ At(t, "li_loop")
       /\ Top(t).m.type = SpeechStarted
       /\ Len(out[t]) = 2
       /\ out[t][1].type = Truncate /\ out[t][1].ok
       /\ out[t][2].type = "clear" /\ out[t][2].ok
       /\ state.last_assistant_item = None /\ state.response_start_timestamp = NoInt

\* C6: every truncate command has audio_end_ms >= 0, and audio_end_ms = 0 whenever
\* latest_media_timestamp <= response_start_timestamp when the command is built.
C6_AudioEndMsNotNegative ==
    [][\A t \in Tasks :
         (Stepped(t, "li_dispatch") /\ Len(out'[t]) = Len(out[t]) + 1
            /\ out'[t][Len(out'[t])].type = Truncate)
         => /\ out'[t][Len(out'[t])].n >= 0
            /\ (IntOr0(state.latest_media_timestamp) <= IntOr0(state.response_start_timestamp)
                  => out'[t][Len(out'[t])].n = 0)]_vars

\* C6, the case: a truncate command built while latest_media_timestamp is below
\* response_start_timestamp.
C6_Witness ==
    \E t \in Tasks :
       /\ At(t, "tr_sent")
       /\ out[t] # <<>>
       /\ out[t][Len(out[t])].type = Truncate
       /\ out[t][Len(out[t])].n = 0
       /\ IntOr0(state.latest_media_timestamp) < IntOr0(state.response_start_timestamp)

\* C7: a speech_started event handled while last_assistant_item is None or
\* response_start_timestamp is None sends nothing and leaves Session State as it
\* is; the handler is over after that one step.
C7_TruncationNoOp ==
    [][\A t \in Tasks :
         (/\ Stepped(t, "li_dispatch")
          /\ Top(t).m.type = SpeechStarted
          /\ (state.last_assistant_item = None \/ state.response_start_timestamp = NoInt))
         => /\ EmitsNothing(t)
            /\ state' = state
            /\ LabelAfter(t) = "li_loop"]_vars

\* C7, the case: a speech_started event has been handled with a recorded
\* response_start_timestamp but no assistant item, and nothing was sent.
C7_Witness ==
    \E t \in Tasks :
       /\ At(t, "li_loop")
       /\ Top(t).m.type = SpeechStarted
       /\ out[t] = <<>>
       /\ state.last_assistant_item = None
       /\ state.response_start_timestamp # NoInt

\* the first delta of a new response, with the telephony leg and the stream id
FirstDelta(t) ==
    /\ Stepped(t, "li_dispatch")
    /\ Top(t).m.type = AudioDelta
    /\ twilio_websocket # None /\ state.stream_sid # None
    /\ state.response_start_timestamp = NoInt
Captured(t) ==
    /\ state'.response_start_timestamp =
          IF state.latest_media_timestamp = NoInt THEN SomeInt(0)
          ELSE state.latest_media_timestamp
    /\ state'.last_assistant_item = Top(t).m.id
\* a speech_started event is handled with both fields set and no media frame
\* since the capture
TruncationRightAfterCapture(t) == TruncationStartsSet(t) /\ ~hist.chunks

\* C8, as stated: the first delta captures response_start_timestamp and
\* last_assistant_item; a speech_started event with no media frame since then
\* gives a truncate command for that item with audio_end_ms = 0 and then a clear
\* command to the telephony leg.
C8_CaptureThenTruncateZeroAndClear ==
    [][\A t \in Tasks :
         /\ FirstDelta(t) => Captured(t)
         /\ TruncationRightAfterCapture(t) =>
               Emits(t, "openai", Truncate, state.last_assistant_item, 0)
         /\ (Stepped(t, "tr_sent") /\ ~hist.chunks) => ClearEmitted(t)]_vars

\* C8, amended: as above, with the clear command sent when the telephony handle
\* and the stream id are both still set once the truncate command has been sent.
C8_CaptureThenTruncateZero ==
    [][\A t \in Tasks :
         /\ FirstDelta(t) => Captured(t)
         /\ TruncationRightAfterCapture(t) =>
               IF openai_client # NoClient
               THEN Emits(t, "openai", Truncate, state.last_assistant_item, 0)
               ELSE EmitsNothing(t)
         /\ (Stepped(t, "tr_sent") /\ ~hist.chunks) =>
               IF twilio_websocket # None /\ state.stream_sid # None
               THEN ClearEmitted(t) ELSE EmitsNothing(t)]_vars

\* C8, the case: after a media frame with timestamp 1 and a first delta for item
\* a1, a speech_started event has given truncate(a1, 0) and a clear command.
C8_Witness ==
    \E t \in Tasks :
       /\ At(t, "tr_cleared")
       /\ ~hist.chunks
       /\ state.latest_media_timestamp = SomeInt(1)
       /\ state.response_start_timestamp = SomeInt(1)
       /\ Len(out[t]) = 2
       /\ out[t][1].type = Truncate /\ out[t][1].id = "a1" /\ out[t][1].n = 0
       /\ out[t][2].type = "clear"

\* C9, as stated: no timestamp value makes the handler of a media frame fail, so
\* no dispatcher leaves its loop because of a media frame.
C9_MediaHandlerNeverFails ==
    \A s \in CallSockets :
       At(DTask(s), "d_finally") => Top(DTask(s)).m.type # "media"

\* a task starts a connect() of client c in this step
ConnectStarts(c) ==
    \E t \in Tasks :
       /\ LabelAfter(t) = "co_dial"
       /\ stk'[t][Len(stk'[t])].c = c
       /\ ~At(t, "co_dial")
Exhausted(c) == hist.fails[c] >= max_attempts

\* C10: once max_attempts reconnect attempts in a row have failed, the client is
\* disconnected, its reconnect loop has ended (as soon as the loop's task has
\* suspended or ended), and no connect() of that client starts in any later step.
C10_NoAttemptAfterExhaustion ==
    /\ [](\A c \in Clients :
            Exhausted(c) => /\ hist.fails[c] = max_attempts
                            /\ ~client[c].is_connected
                            /\ (cpu # RTask(c) => tst[RTask(c)] # "live"))
    /\ [][\A c \in Clients : Exhausted(c) => ~ConnectStarts(c)]_vars

\* C10, the case: the reconnect loop of the bridge's client has ended after
\* max_attempts failed attempts while the call goes on.
C10_Witness ==
    /\ openai_client # NoClient
    /\ Exhausted(openai_client)
    /\ tst[RTask(openai_client)] = "done"
    /\ \E s \in CallSockets : At(DTask(s), "d_recv") /\ sock[s] = "open"

\* the delay the backoff rule gives for the k-th attempt in a row
Backoff(k) == IF initial_delay * 2^(k - 1) <= max_delay
              THEN initial_delay * 2^(k - 1) ELSE max_delay
BackoffSequence == <<2, 4, 8, 16, 32, 60, 60, 60, 60, 60>>

\* C11: the reconnect loop sleeps min(initial_delay * 2^(k-1), max_delay) seconds
\* before its k-th attempt in a row: never more than max_delay, never less than
\* before the attempt k-1, and 2, 4, 8, 16, 32, 60, 60, ... for 2 and 60.
C11_BackoffDelay ==
    \A c \in Clients :
       At(RTask(c), "rl_sleep") =>
          LET k == Top(RTask(c)).i
              d == Top(RTask(c)).delay
          IN /\ k = client[c].current_reconnect_attempts
             /\ k \in 1..max_attempts
             /\ d = Backoff(k)
             /\ d <= max_delay
             /\ (k > 1 => d >= Backoff(k - 1))
             /\ d = BackoffSequence[k]

\* C11, the case: the loop sleeps before its 6th attempt in a row, the first one
\* whose delay is the cap.
C11_Witness ==
    \E c \in Clients :
       /\ At(RTask(c), "rl_sleep")
       /\ Top(RTask(c)).i = 6
       /\ Top(RTask(c)).delay = max_delay
       /\ hist.fails[c] = 5

Attempts(c) == client[c].current_reconnect_attempts
\* connect() of client c has just succeeded in this step
ConnectSucceeds(t, c) ==
    Stepped(t, "co_dial") /\ Top(t).c = c /\ LabelAfter(t) = "co_wait"
\* the reconnect loop of client c goes into one more attempt in this step
AttemptBegins(t, c) ==
    t = RTask(c) /\ Stepped(t, "rl_top") /\ Top(t).c = c /\ LabelAfter(t) = "rl_sleep"

\* C12: the counter of reconnect attempts is within 0..max_attempts in every
\* state; it is 0 right after every successful connect(); it changes in no other
\* step than a successful connect() (to 0) and the reconnect loop's entry into an
\* attempt (by one, once for each attempt).
C12_CounterWithinBounds ==
    /\ [](\A c \in Clients : Attempts(c) \in 0..max_attempts)
    /\ [][\A c \in Clients :
            /\ \A t \in Tasks : ConnectSucceeds(t, c) => client'[c].current_reconnect_attempts = 0
            /\ \A t \in Tasks : AttemptBegins(t, c) =>
                  client'[c].current_reconnect_attempts = Attempts(c) + 1
            /\ client'[c].current_reconnect_attempts # Attempts(c) =>
                  \E t \in Tasks : ConnectSucceeds(t, c) \/ AttemptBegins(t, c)]_vars

\* C12, the case: a connect() made by the reconnect loop has succeeded after
\* attempts that failed, and the counter is 0 again.
C12_Witness ==
    \E c \in Clients :
       /\ At(RTask(c), "co_wait")
       /\ client[c].is_connected
       /\ client[c].current_reconnect_attempts = 0

\* the commands a handler has sent, or has tried to send, to the speech endpoint
RECURSIVE ToSpeech(_)
ToSpeech(log) ==
    IF log = <<>> THEN <<>>
    ELSE IF log[1].to = "openai" THEN <<log[1]>> \o ToSpeech(Tail(log))
    ELSE ToSpeech(Tail(log))
\* the handler of a response.output_item.done event with a function call is over
FunctionCallHandled(t) ==
    /\ At(t, "li_loop")
    /\ Top(t).m.type = OutputItemDone
    /\ Top(t).m.item.type = "function_call"
\* the two commands a function call is answered with
Answered(t) ==
    LET cmds == ToSpeech(out[t]) IN
    /\ Len(cmds) = 2
    /\ cmds[1].type = "conversation.item.create"
    /\ cmds[1].id = Top(t).m.item.call_id
    /\ cmds[1].p \in FunctionOutputs
    /\ cmds[2].type = "response.create"

\* C13, as stated: once the handler of a response.output_item.done event whose
\* item is a function call is over, the bridge has sent conversation.item.create
\* (function_call_output, the same call_id, the collaborator's result) and then
\* response.create; for an unknown name, for arguments that cannot be parsed and
\* for a handler that raises, the result is a text with an error.
C13_FunctionCallAnswered ==
    \A t \in Tasks :
       FunctionCallHandled(t) =>
          /\ Answered(t)
          /\ (Top(t).m.item.name # Weather \/ Top(t).m.item.arguments # "object")
                => ToSpeech(out[t])[1].p \in ErrorOutputs

\* disconnect(disable_reconnect=True) has been called on client c: nothing else
\* turns the flag off
DisconnectCalled(c) == client[c].created /\ ~client[c].auto_reconnect

\* C14, as stated: after disconnect(disable_reconnect=True) the reconnect loop of
\* the client is over, and the client is never again connected nor holds a
\* transport, whatever was in flight when disconnect was called.
C14_DisconnectIsFinal ==
    \A c \in Clients :
       DisconnectCalled(c) =>
          /\ ~client[c].is_connected
          /\ (client[c].websocket # NoTransport =>
                 \E t \in Tasks : At(t, "da_oa_closed") /\ Top(t).c = c)
          /\ tst[RTask(c)] # "live"

\* C15, as stated: the session.update a reconnect of the bridge's client sends
\* carries the most recent saved_config laid over the defaults.
C15_ReconnectReplaysSavedConfig ==
    [][\A c \in Clients :
         (Stepped(RTask(c), "co_wait") /\ openai_client = c) =>
            /\ Emits(RTask(c), "openai", "session.update", None, 0)
            /\ out'[RTask(c)][Len(out'[RTask(c)])].p = SessionData(state.saved_config)]_vars

\* a dispatcher of the observer leg takes a message off its socket in this step
ObserverMessageRead(t) ==
    /\ Stepped(t, "d_recv")
    /\ RoleOf(Own(t)) = "logs"
    /\ LabelAfter(t) \in {"fm_sent", "hd"}
\* the message is handed, as it is, to the client the bridge holds
Forwarded(t) ==
    /\ Emits(t, "openai", stk'[t][1].m.type, None, 0)
    /\ out'[t][Len(out'[t])].p = stk'[t][1].m.payload
    /\ out'[t][Len(out'[t])].c = openai_client
\* the second half of the handler: the payload of a session.update is saved
SavedIfSessionUpdate(t) ==
    Stepped(t, "fm_sent") =>
       state' = IF Top(t).m.type = "session.update"
                THEN [state EXCEPT !.saved_config = Top(t).m.payload]
                ELSE state

\* C16, as stated: every message of the observer leg is forwarded unchanged to
\* the speech client; a session.update leaves saved_config equal to its session
\* payload, and a message of another type leaves saved_config as it is.
C16_ObserverMessageForwarded ==
    [][\A t \in Tasks :
         /\ ObserverMessageRead(t) => Forwarded(t) /\ state' = state
         /\ SavedIfSessionUpdate(t)]_vars

\* C16, amended: the message is handed unchanged to the speech client when the
\* bridge holds one, and to nobody otherwise; saved_config as stated.
C16_ObserverMessageForwardedIfClient ==
    [][\A t \in Tasks :
         /\ ObserverMessageRead(t) =>
               /\ IF openai_client # NoClient THEN Forwarded(t) ELSE EmitsNothing(t)
               /\ state' = state
         /\ SavedIfSessionUpdate(t)]_vars

\* C16, the case: a session.update of the observer has been written to the
\* speech connection and its payload is the saved configuration.
C16_Witness ==
    \E s \in LogSockets :
       /\ At(DTask(s), "d_loop")
       /\ Top(DTask(s)).m.type = "session.update"
       /\ Top(DTask(s)).m.payload = "cfg1"
       /\ Len(out[DTask(s)]) = 1
       /\ out[DTask(s)][1].ok
       /\ out[DTask(s)][1].type = "session.update"
       /\ out[DTask(s)][1].p = "cfg1"
       /\ state.saved_config = "cfg1"

\* the read loop t takes an event off its connection in this step and goes on
\* to the handling of the event
EventRead(t) == Stepped(t, "li_recv") /\ LabelAfter(t) = "li_dispatch"
\* the one thing the step does is to send the event, as read, to the observer
MirroredFirst(t) ==
    /\ out[t] = <<>>
    /\ Len(out'[t]) = 1
    /\ out'[t][1].to = "frontend"
    /\ out'[t][1].ws = frontend_websocket
    /\ out'[t][1].p = stk'[t][Len(stk'[t])].m
    /\ out'[t][1].type = stk'[t][Len(stk'[t])].m.type
\* the type-specific handlers run from li_dispatch only; until then the step has
\* changed neither the session state nor the clients
NotYetHandled == state' = state /\ client' = client /\ transport' = transport

\* C19: for every event read from the speech endpoint, whatever its type, the
\* bridge first sends the event unmodified to the observer leg it holds, and
\* only then handles it; with no observer leg the event goes to its handler
\* with nothing sent.
C19_EventMirroredBeforeHandling ==
    [][\A t \in Tasks :
         EventRead(t) =>
            /\ IF frontend_websocket # None THEN MirroredFirst(t) ELSE out'[t] = <<>>
            /\ NotYetHandled]_vars

\* C19, the case: an audio delta has been written to the observer leg and is
\* about to be handled.
C19_Witness ==
    \E k \in Transports :
       /\ At(LTask(k), "li_dispatch")
       /\ Top(LTask(k)).m.type = AudioDelta
       /\ Top(LTask(k)).m.payload = "p1"
       /\ out[LTask(k)] # <<>>
       /\ out[LTask(k)][1].ok
       /\ out[LTask(k)][1].ws = frontend_websocket
       /\ out[LTask(k)][1].p = Top(LTask(k)).m

\* a dispatcher of the telephony leg has handled a frame of this type in this step
FrameHandled(t, type) ==
    /\ Stepped(t, "d_recv")
    /\ RoleOf(Own(t)) = "call"
    /\ stk'[t][1].l = "d_loop"
    /\ stk'[t][1].m.type = type
Connected == openai_client # NoClient /\ client[openai_client].is_connected
StartedSession(sid) ==
    [state EXCEPT !.stream_sid = sid, !.latest_media_timestamp = SomeInt(0),
                  !.last_assistant_item = None, !.response_start_timestamp = NoInt]

\* C17: a 'start' frame sets stream_id from the frame, latest_media_timestamp to
\* 0 and last_assistant_item and response_start_timestamp to None; with a client
\* that is connected it creates no client and opens no connection; otherwise
\* (and with a stream id) it creates a new client and starts its connect().
C17_StartResetsAndConnectsOnce ==
    [][\A t \in Tasks :
         FrameHandled(t, "start") =>
            /\ state' = StartedSession(stk'[t][1].m.id)
            /\ IF Connected \/ stk'[t][1].m.id = None
               THEN /\ openai_client' = openai_client
                    /\ client' = client
                    /\ transport' = transport
                    /\ LabelAfter(t) = "d_loop"
               ELSE /\ openai_client' # openai_client
                    /\ ~client[openai_client'].created
                    /\ client'[openai_client'].created
                    /\ ~client'[openai_client'].is_connected
                    /\ LabelAfter(t) = "co_dial"
                    /\ stk'[t][Len(stk'[t])].c = openai_client']_vars

\* C17, the case: a 'start' frame has been handled while the client was
\* connected on an open connection, after a media frame; the fields are reset,
\* and the dispatcher is back at its loop with the same client.
C17_Witness ==
    \E s \in CallSockets :
       /\ At(DTask(s), "d_loop")
       /\ Top(DTask(s)).m.type = "start"
       /\ Top(DTask(s)).m.id = "s1"
       /\ Connected
       /\ transport[client[openai_client].websocket].st = "open"
       /\ hist.chunks
       /\ state = StartedSession("s1")

\* the step appends an audio append command to the output of t's handler
AppendEmitted(t) ==
    /\ Len(out'[t]) = Len(out[t]) + 1
    /\ out'[t][Len(out'[t])].type = "input_audio_buffer.append"

\* C18: a media frame handled while the bridge holds no client, or a client
\* that is not connected, changes latest_media_timestamp and nothing else and
\* sends nothing; and no later step sends the chunk, since an append command
\* is only ever sent by the step that reads a media frame, with that frame's
\* payload and to a connected client.
C18_NoAppendWhileDown ==
    [][\A t \in Tasks :
         /\ (FrameHandled(t, "media") /\ ~Connected) =>
               /\ EmitsNothing(t)
               /\ LabelAfter(t) = "d_loop"
               /\ \E n \in (0 - MaxNeg)..MaxTs :
                     state' = [state EXCEPT !.latest_media_timestamp = SomeInt(n)]
               /\ openai_client' = openai_client /\ client' = client /\ transport' = transport
         /\ AppendEmitted(t) =>
               /\ FrameHandled(t, "media")
               /\ Connected
               /\ out'[t][Len(out'[t])].p = stk'[t][1].m.payload]_vars

\* C18, the case: a media frame with a payload and timestamp 1 has been handled
\* while the bridge's client was reconnecting; nothing was sent.
C18_Witness ==
    \E s \in CallSockets :
       /\ At(DTask(s), "d_loop")
       /\ Top(DTask(s)).m.type = "media"
       /\ Top(DTask(s)).m.payload = "p1"
       /\ out[DTask(s)] = <<>>
       /\ openai_client # NoClient
       /\ ~client[openai_client].is_connected
       /\ tst[RTask(openai_client)] = "live"
       /\ state.latest_media_timestamp = SomeInt(1)

\* the read loop t starts to handle an audio delta in this step
DeltaHandled(t) == Stepped(t, "li_dispatch") /\ Top(t).m.type = AudioDelta

\* C20, as stated: a delta handled with no telephony leg or no stream id sends
\* nothing and changes nothing; otherwise a delta with a payload gives one media
\* command with that payload, followed at once by one mark command for the same
\* stream id; the handler is over after the mark, with no wait for an answer.
C20_MediaThenMarkSameStream ==
    [][\A t \in Tasks :
         /\ DeltaHandled(t) =>
               IF twilio_websocket = None \/ state.stream_sid = None
               THEN EmitsNothing(t) /\ state' = state /\ LabelAfter(t) = "li_loop"
               ELSE IF Top(t).m.payload # ""
               THEN /\ Emits(t, "twilio", "media", state.stream_sid, 0)
                    /\ out'[t][Len(out'[t])].p = Top(t).m.payload
                    /\ LabelAfter(t) = "de_media"
               ELSE EmitsNothing(t) /\ LabelAfter(t) = "li_loop"
         /\ Stepped(t, "de_media") =>
               /\ Emits(t, "twilio", "mark", out[t][Len(out[t])].id, 0)
               /\ LabelAfter(t) = "li_loop"]_vars


\* ---------------------------------------------------------------- C21
Last(q) == q[Len(q)]
ReconnectRunning(c) == tst[RTask(c)] = "live"
ReconnectRunningNext(c) == tst'[RTask(c)] = "live"
SendUntouched == clientVars' = clientVars /\ tst' = tst

\* C21: a call of send_message on a client that is not connected returns
\* failure and leaves the client and the transport as they are; on a closed
\* transport it returns failure through the disconnection path, which turns
\* the flag off, tells the observer, and leaves a reconnect loop running when
\* auto-reconnect is on; on a message that cannot be serialised it returns
\* failure and leaves the flag, the transport and the reconnect loop as they are.
C21_SendFailures ==
    [][LET t == Sender
           c == openai_client
       IN /\ Stepped(t, "s_idle") =>
               LET k == client[c].websocket
                   e == Last(out'[t])
               IN IF ~client[c].is_connected \/ k = NoTransport
                  THEN ~e.ok /\ LabelAfter(t) = "s_sent" /\ SendUntouched
                  ELSE IF e.type = Unserializable
                  THEN ~e.ok /\ LabelAfter(t) = "s_sent" /\ SendUntouched
                  ELSE IF transport[k].st = "open"
                  THEN e.ok /\ LabelAfter(t) = "s_sent" /\ client' = client
                  ELSE ~e.ok /\ LabelAfter(t) = "hd" /\ Top(t).c # c
                       /\ stk'[t][Len(stk'[t])].c = c
          /\ Stepped(t, "hd") =>
               /\ client[Top(t).c].is_connected
               /\ ~client'[Top(t).c].is_connected
               /\ IF frontend_websocket # None
                  THEN /\ Emits(t, "frontend", "openai_disconnected", None, 0)
                       /\ LabelAfter(t) = "hd_cb"
                  ELSE /\ LabelAfter(t) = "s_sent"
                       /\ client[Top(t).c].auto_reconnect
                            => ReconnectRunningNext(Top(t).c)
          /\ Stepped(t, "hd_cb") =>
               /\ LabelAfter(t) = "s_sent"
               /\ ~client'[Top(t).c].is_connected
               /\ client[Top(t).c].auto_reconnect => ReconnectRunningNext(Top(t).c)
      ]_vars

\* The sender is inside the disconnection path, after on_disconnected, with
\* auto-reconnect on.
C21_Witness ==
    /\ tst[Sender] = "live"
    /\ Top(Sender).l = "hd_cb"
    /\ client[Top(Sender).c].auto_reconnect

\* The sender has been refused a message that cannot be serialised while the
\* client is connected.
C21_WitnessOther ==
    /\ tst[Sender] = "live"
    /\ Top(Sender).l = "s_sent"
    /\ Len(out[Sender]) > 0
    /\ Last(out[Sender]).type = Unserializable
    /\ client[Top(Sender).c].is_connected

\* ---------------------------------------------------------------- C22
Registered(s) == connection_types[s] # None
                 /\ InSeq(s, active_connections[connection_types[s]])
Listed(ac, s) == \E r \in Roles : InSeq(s, ac[r])

\* C22: in every state of the registry and for every socket, disconnect on a
\* registered socket takes it out of the list of its role and forgets its role,
\* disconnect on a socket that is not registered (never registered, released or
\* evicted) gives the registry back as it is, and disconnect after disconnect
\* gives what one disconnect gives.
C22_ReleaseIdempotent ==
    \A x \in Sockets :
        LET now == [ac |-> active_connections, ct |-> connection_types]
            one == Disconnect(now.ac, now.ct, x)
            two == Disconnect(one.ac, one.ct, x)
        IN /\ two = one
           /\ IF Registered(x)
              THEN /\ ~Listed(one.ac, x)
                   /\ one.ct = [now.ct EXCEPT ![x] = None]
                   /\ \A y \in Sockets \ {x} : Listed(one.ac, y) = Listed(now.ac, y)
              ELSE one = now

\* A caller whose connection was registered has released it: the socket is
\* open, its accept has returned, and the registry no longer knows it.
C22_Witness ==
    \E x \in Sockets :
        /\ sock[x] = "open"
        /\ tst[HTask(x)] = "live"
        /\ Top(HTask(x)).l = "h_idle"
        /\ connection_types[x] = None
        /\ ~Listed(active_connections, x)

\* ---------------------------------------------------------------- C23
BroadcastSteps(t) == Stepped(t, "cm_broadcast") \/ Stepped(t, "cm_bc_sent")
BroadcastReturns(t) == BroadcastSteps(t) /\ LabelAfter(t) = "h_idle"

\* C23: a broadcast to a role that the registry does not know returns at once
\* and changes nothing.  A broadcast to a known role goes through the list of
\* the role: a socket that takes the message stays listed and the call goes on
\* after the send, a socket whose send fails is collected, and when the call
\* returns no collected socket and no socket that failed in the last stretch is
\* listed any more, the sockets that took the message are still listed, and the
\* list of the other role is as it was.  The call always returns to its caller.
C23_Broadcast ==
    [][\A t \in Tasks :
        LET r == Top(t).r
            lst == active_connections[r]
        IN /\ Stepped(t, "cm_broadcast") /\ r \notin Roles =>
                /\ LabelAfter(t) = "h_idle"
                /\ regVars' = regVars /\ sock' = sock
           /\ Stepped(t, "cm_broadcast") /\ r \in Roles =>
                \A n \in 1..Len(lst) :
                    IF SendOk(sock, lst[n])
                    THEN InSeq(lst[n], active_connections'[r])
                    ELSE \/ ~Listed(active_connections', lst[n])
                         \/ /\ LabelAfter(t) = "cm_bc_sent"
                            /\ InSeq(lst[n], stk'[t][Len(stk'[t])].q)
           /\ BroadcastSteps(t) /\ r \in Roles =>
                /\ LabelAfter(t) \in {"cm_bc_sent", "h_idle"}
                /\ LabelAfter(t) = "cm_bc_sent" =>
                     /\ regVars' = regVars
                     /\ \E n \in (Top(t).i + 1)..Len(lst) :
                           /\ SendOk(sock, lst[n])
                           /\ stk'[t][Len(stk'[t])].i = n
                           /\ \A j \in (Top(t).i + 1)..(n - 1) : ~SendOk(sock, lst[j])
                /\ \A r2 \in Roles \ {r} : active_connections'[r2] = active_connections[r2]
           /\ BroadcastReturns(t) /\ r \in Roles =>
                /\ \A n \in 1..Len(Top(t).q) : ~Listed(active_connections', Top(t).q[n])
                /\ \A n \in 1..Len(lst) :
                     InSeq(lst[n], active_connections'[r])
                        <=> (n <= Top(t).i /\ ~InSeq(lst[n], Top(t).q))
      ]_vars

\* A broadcast has sent the message to the one connection of a role and is
\* suspended in that send.
C23_Witness ==
    \E t \in Tasks :
        /\ tst[t] = "live"
        /\ Top(t).l = "cm_bc_sent"
        /\ Top(t).i = 1
        /\ Len(active_connections[Top(t).r]) = 1

\* A caller is back from a broadcast or a send that found the peer of its
\* own connection gone: the registry has dropped the connection.
C23_WitnessFailed ==
    \E x \in Sockets :
        /\ sock[x] = "pclosed"
        /\ tst[HTask(x)] = "live"
        /\ Top(HTask(x)).l = "h_idle"
        /\ connection_types[x] = None

\* ---------------------------------------------------------------- C24
SessionUpdateBuilt(t) == Stepped(t, "co_wait")
Supplied(c) == ConfigDict(client[c].session_config)

\* C24: the session of the session.update that connect hands to send_message
\* has every key of the configuration the client holds, with the value the
\* configuration gives it, and every key of the defaults that the
\* configuration does not have, with its default.
C24_SessionUpdateMerges ==
    [][\A t \in Tasks :
        SessionUpdateBuilt(t) =>
            LET e == Last(out'[t])
                cfg == Supplied(Top(t).c)
            IN /\ e.type = "session.update"
               /\ \A x \in DOMAIN cfg : x \in DOMAIN e.p /\ e.p[x] = cfg[x]
               /\ \A x \in DOMAIN DefaultConfig \ DOMAIN cfg : e.p[x] = DefaultConfig[x]
      ]_vars

\* What holds of the code: the keys that the schema declares are merged as
\* C24 says, and the message has no other key.
C24_DeclaredKeysMerge ==
    [][\A t \in Tasks :
        SessionUpdateBuilt(t) =>
            LET e == Last(out'[t])
                cfg == Supplied(Top(t).c)
            IN /\ e.type = "session.update"
               /\ DOMAIN e.p = DOMAIN DefaultConfig
               /\ \A x \in DOMAIN DefaultConfig :
                     e.p[x] = IF x \in DOMAIN cfg THEN cfg[x] ELSE DefaultConfig[x]
      ]_vars

\* ---------------------------------------------------------------- C25
\* The connection of client c has been lost with an error, and the read loop
\* has run its disconnection path to the end.
Lost(c) ==
    LET k == client[c].websocket IN
    /\ k # NoTransport
    /\ transport[k].st = "closed_err"
    /\ tst[LTask(k)] = "done"

\* C25: once a connection of a client with auto-reconnect on has been lost and
\* the read loop has ended, the flag is off and, unless max_attempts attempts
\* have failed, the reconnect loop of the client is running.
C25_LossStartsReconnect ==
    \A c \in Clients :
        Lost(c) /\ client[c].auto_reconnect =>
            /\ ~client[c].is_connected
            /\ ReconnectRunning(c) \/ Exhausted(c)

\* ---------------------------------------------------------------- C26
\* The dispatcher of socket s has left its loop and is in its finally clause.
Exiting(s) ==
    /\ stk[DTask(s)] # <<>>
    /\ stk[DTask(s)][1].l \in {"d_finally", "da_begin", "da_fe", "da_oa", "da_oa_closed"}
ExitStep(s) == Exiting(s) /\ stk'[DTask(s)] # stk[DTask(s)]

\* C26: while a newer media connection is the telephony leg of the bridge, no
\* step of the finally clause of an older connection's dispatcher closes the
\* newer connection, drops it as telephony leg or from the registry, resets the
\* session state, or tears the speech client down.
C26_NewCallSurvivesOldExit ==
    [][\A old \in CallSockets, new \in CallSockets :
        old # new /\ twilio_websocket = new /\ ExitStep(old) =>
            /\ twilio_websocket' = new
            /\ sock'[new] = sock[new]
            /\ InSeq(new, active_connections["call"])
                  => InSeq(new, active_connections'["call"])
            /\ state' = state
            /\ openai_client' = openai_client
            /\ client' = client
      ]_vars

\* ---------------------------------------------------------------- C27
AcceptRegisters(t) ==
    /\ Stepped(t, "cm_accepted") \/ Stepped(t, "cm_evict")
    /\ LabelAfter(t) # "cm_evict"
ClosedByServer(s) == sock[s] = "sclosed"

\* C27: whenever the tasks are suspended, no socket that an accept has closed
\* is listed in the registry; and the step of an accept that registers the new
\* socket takes out of the registry only sockets that have been closed.
C27_AcceptIsAtomic ==
    /\ [](cpu = NoTask =>
            \A s \in Sockets : ClosedByServer(s) => ~Listed(active_connections, s))
    /\ [][\A t \in Tasks :
            AcceptRegisters(t) =>
               \A s \in Sockets :
                  Listed(active_connections, s) /\ ~Listed(active_connections', s)
                     => sock[s] # "open"]_vars


\* ---------------------------------------------------------------- C28
\* The read loop of transport k has told the observer 'openai_disconnected'.
ToldDisconnected(k) ==
    \E j \in 1..Len(out[LTask(k)]) :
        /\ out[LTask(k)][j].type = "openai_disconnected"
        /\ out[LTask(k)][j].ok
ToldConnected(t) ==
    /\ Stepped(t, "co_sent")
    /\ Emits(t, "frontend", "openai_connected", None, 0)
    /\ Last(out'[t]).ok

\* C28: when the observer is told 'openai_connected' for a connection, it has
\* not yet been told 'openai_disconnected' for that connection.
C28_ConnectedBeforeDisconnected ==
    [][\A t \in Tasks : ToldConnected(t) => ~ToldDisconnected(Top(t).k)]_vars


\* ---------------------------------------------------------------- C29
\* The transport of client c is closed and the read loop on it has ended.
ReadLoopEnded(c) ==
    LET k == client[c].websocket IN
    /\ k # NoTransport
    /\ transport[k].st \in {"closed_ok", "closed_err"}
    /\ tst[LTask(k)] = "done"

\* C29: once the read loop of a client has ended on a closed transport, the
\* connected flag of the client is off.
C29_LoopEndRunsDisconnection ==
    \A c \in Clients : ReadLoopEnded(c) => ~client[c].is_connected

\* What holds of the code: the flag is off once the read loop has ended on a
\* transport that was closed with an error.
C29_ReadErrorRunsDisconnection ==
    \A c \in Clients :
        ReadLoopEnded(c) /\ transport[client[c].websocket].st = "closed_err"
            => ~client[c].is_connected

\* ---------------------------------------------------------------- C30
FrameRead(t) == Stepped(t, "d_recv") /\ sock[Own(t)] = "open"

\* C30: no frame that a dispatcher reads from a connection that is open takes
\* the dispatcher out of its loop and into its finally clause.
C30_MalformedFrameDropped ==
    [][\A s \in Sockets : FrameRead(DTask(s)) => LabelAfter(DTask(s)) # "d_finally"]_vars

\* ---------------------------------------------------------------- C31
Skipped(t) == stk'[t] # <<>> /\ Last(stk'[t]).m.type = Unparsable
FrameSkipped(t) == Stepped(t, "li_recv") /\ Skipped(t)
HandlerRaises(t) == Stepped(t, "li_dispatch") /\ Top(t).m.type = NotObject
AfterSkip(t) == Stepped(t, "li_loop") /\ Top(t).m.type \in {Unparsable, NotObject}

FrameTaken(t) ==
    /\ Stepped(t, "li_recv")
    /\ transport[Top(t).k].st = "open"
    /\ client[Top(t).c].is_connected

\* C31: in the read loop of a connected client, no frame read from an open
\* transport ends the loop or changes the client: the frame goes to its handler
\* or, if it is no JSON, to the end of the loop body.  The step that takes a
\* frame that is no JSON, and the step in which the handler raises on a frame
\* that is no object, leave the client, the transport and the session as they
\* are and go on to the end of the loop body, and from there the loop goes back
\* to the read of the next frame with the task alive.
C31_BadFrameSkipped ==
    [][\A k \in Transports :
        LET t == LTask(k) IN
        /\ FrameTaken(t) =>
              /\ LabelAfter(t) \in {"li_dispatch", "li_loop"}
              /\ tst'[t] = "live"
              /\ client' = client
        /\ FrameSkipped(t) \/ HandlerRaises(t) =>
              /\ LabelAfter(t) = "li_loop"
              /\ clientVars' = clientVars
              /\ bridgeVars' = bridgeVars
              /\ tst' = tst
        /\ AfterSkip(t) =>
              /\ LabelAfter(t) = "li_recv"
              /\ tst'[t] = "live"
              /\ clientVars' = clientVars
      ]_vars

\* The read loop has skipped a frame that is no JSON, and the client is connected.
C31_Witness ==
    \E k \in Transports :
        /\ tst[LTask(k)] = "live"
        /\ Top(LTask(k)).l = "li_loop"
        /\ Top(LTask(k)).m.type = Unparsable
        /\ client[Top(LTask(k)).c].is_connected

\* The handler has raised on a frame that is no object, and the read loop is
\* at the end of its body.
C31_WitnessRaised ==
    \E k \in Transports :
        /\ tst[LTask(k)] = "live"
        /\ Top(LTask(k)).l = "li_loop"
        /\ Top(LTask(k)).m.type = NotObject

\* ---------------------------------------------------------------- C32
\* A task that was alive takes a step (a step of one task changes the stack of
\* another only by creating it or by cancelling it).
Steps(t) == tst[t] = "live" /\ stk'[t] # stk[t]
LoopCreated(c) == ~ReconnectRunning(c) /\ ReconnectRunningNext(c)

\* C32: the client has one reconnect task at a time. No step of another task
\* (a connect that fails, a send that fails, a read loop that ends) touches a
\* reconnect loop that is running and goes on running: a start while the loop
\* is in flight is a no-op; and a loop is created only when none is running,
\* at the top of _reconnect_loop.
C32_OneReconnectLoop ==
    [][\A c \in Clients :
        /\ \A t \in Tasks \ {RTask(c)} :
              Steps(t) /\ ReconnectRunning(c) /\ ReconnectRunningNext(c)
                 => stk'[RTask(c)] = stk[RTask(c)]
        /\ LoopCreated(c) =>
              stk'[RTask(c)] = <<[Frame("rl_top") EXCEPT !.c = c]>>
      ]_vars

\* The connection that the reconnect loop made has been lost, the read loop has
\* called _start_reconnect, and the reconnect loop is still the one that waits
\* inside connect.
C32_Witness ==
    \E c \in Clients :
        /\ Lost(c)
        /\ client[c].auto_reconnect
        /\ ReconnectRunning(c)
        /\ \E j \in 1..Len(stk[RTask(c)]) : stk[RTask(c)][j].l = "co_wait"

\* ---------------------------------------------------------------- C33
ReconnectOff(c) == client[c].created /\ ~client[c].auto_reconnect
LoopCallsConnect(c) == Stepped(RTask(c), "rl_sleep") /\ LabelAfter(RTask(c)) = "co_dial"

\* C33: while auto-reconnect is off, the reconnect loop starts no connect(): a
\* loop whose sleep ends after the flag went off leaves at once, and a loop
\* that was cancelled takes no step at all.
C33_NoAttemptAfterDisable ==
    [][\A c \in Clients :
        /\ ReconnectOff(c) => ~LoopCallsConnect(c)
        /\ ReconnectOff(c) /\ Stepped(RTask(c), "rl_sleep") => tst'[RTask(c)] = "done"
        /\ tst[RTask(c)] = "cancelled" => stk'[RTask(c)] = <<>> /\ stk[RTask(c)] = <<>>
      ]_vars

\* Auto-reconnect is off while the reconnect loop is in its sleep.
C33_Witness ==
    \E c \in Clients :
        /\ ReconnectOff(c)
        /\ tst[RTask(c)] = "live"
        /\ Top(RTask(c)).l = "rl_sleep"

\* The reconnect loop has been cancelled in its sleep or inside connect().
C33_WitnessCancelled ==
    \E c \in Clients : ReconnectOff(c) /\ tst[RTask(c)] = "cancelled"

\* ---------------------------------------------------------------- C34
\* disconnect_all returns: the step from its last part (the speech client) that
\* pops its frame.
TeardownReturns(t) ==
    /\ Stepped(t, "da_oa") \/ Stepped(t, "da_oa_closed")
    /\ LabelAfter(t) # "da_oa_closed"
\* The client whose disconnect() the teardown of task t is returning from.
FormerClient(t) ==
    IF At(t, "da_oa_closed") THEN {Top(t).c}
    ELSE IF At(t, "da_oa") /\ openai_client # NoClient THEN {openai_client}
    ELSE {}

TwilioCleaned(t) == Stepped(t, "cl_twilio") \/ Stepped(t, "cl_twilio_closed")
FrontendCleaned(t) == Stepped(t, "cl_frontend") \/ Stepped(t, "cl_frontend_closed")
InTeardown(t) == \E j \in 1..Len(stk[t]) : stk[t][j].l \in {"da_fe", "da_oa"}

TakesFrame(t) ==
    \/ Stepped(t, "d_recv") /\ sock[Own(t)] = "open"
    \/ /\ Stepped(t, "li_recv")
       /\ transport[Top(t).k].st = "open"
       /\ client[Top(t).c].is_connected
\* The frame whose handler the task is in (NoMsg between two frames).
InHand(t) == stk[t][1].m
Readers(k) == {t \in Tasks : /\ tst[t] = "live"
                              /\ \E j \in 1..Len(stk[t]) :
                                    stk[t][j].k = k /\ stk[t][j].l \in {"li_recv", "li_dispatch",
                                        "li_loop", "fc_http", "fc_out_sent"}}

\* C35: on each connection the frames are handled one after the other: a task
\* takes a frame only when the handler of the frame before has returned (its
\* stack is the loop alone, with no frame in hand), a frame in hand is never
\* replaced by another one before it is given up, also while the HTTP request
\* of a tool call is awaited, and no connection to the speech endpoint has two
\* readers.
C35_FramesInOrder ==
    [][/\ \A t \in Tasks :
            /\ TakesFrame(t) => Len(stk[t]) = 1 /\ InHand(t) = NoMsg
            /\ (tst[t] = "live" /\ stk[t] # <<>> /\ InHand(t) # NoMsg /\ stk'[t] # <<>>
                  /\ tst'[t] = "live")
                 => stk'[t][1].m \in {InHand(t), NoMsg}
       /\ \A k \in Transports : Cardinality(Readers(k)) <= 1
      ]_vars

\* The read loop awaits the HTTP request of a tool call that a frame has asked
\* for, and the connection is open: the next frame can arrive.
C35_Witness ==
    \E k \in Transports :
        /\ At(LTask(k), "fc_http")
        /\ transport[k].st = "open"
        /\ InHand(LTask(k)).type = OutputItemDone
        /\ cpu = NoTask

\* ---------------------------------------------------------------- C36
\* The client is connected or its reconnect loop runs.
InService(c) == client[c].is_connected \/ ReconnectRunning(c)

\* C36: a client that is connected or runs a reconnect loop is the client the
\* bridge holds (so there is at most one): neither a 'start' nor a teardown
\* leaves a client in service behind.
C36_OnlyHeldClientInService ==
    \A c \in Clients : InService(c) => openai_client = c

\* ---------------------------------------------------------------- C37
\* C37: in every state, a last_assistant_item that is set comes with a
\* response_start_timestamp that is set: the delta handler writes the timestamp
\* before the item in one step, and truncation, 'start' and teardown clear both
\* in one step.
C37_ItemImpliesStart ==
    state.last_assistant_item # None => state.response_start_timestamp # NoInt

\* Both fields are set, and a truncation is about to clear them.
C37_Witness ==
    /\ state.last_assistant_item # None
    /\ state.response_start_timestamp # NoInt
    /\ \E k \in Transports : At(LTask(k), "tr_cleared")

\* ---------------------------------------------------------------- C38
StartCaptured == state.response_start_timestamp # NoInt
\* The steps that reset the session's fields: the end of a truncation, a
\* 'start' frame, and the end of disconnect_all.
ResetStep ==
    \E t \in Tasks :
        \/ Stepped(t, "tr_cleared")
        \/ Stepped(t, "d_recv") /\ stk'[t] # <<>> /\ stk'[t][1].m.type = "start"
        \/ TeardownReturns(t)

\* C38: once response_start_timestamp is captured, the handler of an audio delta
\* leaves it as it is, and every step that changes it is a reset to None by a
\* truncation, a 'start' frame or a teardown.
C38_StartCapturedOnce ==
    [][StartCaptured =>
         /\ \A t \in Tasks :
               DeltaHandled(t) =>
                  state'.response_start_timestamp = state.response_start_timestamp
         /\ state'.response_start_timestamp # state.response_start_timestamp
               => state'.response_start_timestamp = NoInt /\ ResetStep
      ]_vars

\* A delta is about to be handled with the start captured and with a later
\* media timestamp in the session state.
C38_Witness ==
    /\ StartCaptured
    /\ CaptureStart(state.latest_media_timestamp) # state.response_start_timestamp
    /\ \E k \in Transports :
          /\ At(LTask(k), "li_dispatch")
          /\ Top(LTask(k)).m.type = AudioDelta
          /\ twilio_websocket # None /\ state.stream_sid # None

\* ---------------------------------------------------------------- C39
\* The command the task hands to the telephony leg in this step, if any.
TelephonyCommands(t) ==
    IF Len(out'[t]) = Len(out[t]) + 1 /\ out'[t][Len(out'[t])].to = "twilio"
    THEN {out'[t][Len(out'[t])]} ELSE {}

\* C39: every media, mark and clear command handed to the telephony leg carries
\* a stream id that is not None and is the one of the latest 'start' frame, which
\* the session state holds.
C39_CommandsCarryStreamId ==
    [][\A t \in Tasks : \A cmd \in TelephonyCommands(t) :
          cmd.type \in {"media", "mark", "clear"} =>
             cmd.id # None /\ cmd.id = state.stream_sid
      ]_vars

\* ---------------------------------------------------------------- C40
\* The dispatcher of observer connection f has left its finally clause.
ObserverReleased(f) == tst[DTask(f)] = "done"
\* A task hands a command to socket f in this step.
SendsTo(f) ==
    \E t \in Tasks :
        /\ Len(out'[t]) = Len(out[t]) + 1
        /\ out'[t][Len(out'[t])].ws = f

\* C40: once the dispatcher of an observer connection is over, the bridge does
\* not hold that connection as its observer handle and hands no command to it.
C40_ReleasedObserverForgotten ==
    [][\A f \in LogSockets :
          ObserverReleased(f) => frontend_websocket # f /\ ~SendsTo(f)
      ]_vars
====
